---- MODULE Spec2Model ----
(***************************************************************************)
(* Model of the topic store of knowledge-base-api: the Topic entity, the   *)
(* in-memory TopicRepository (live records + version history) and the      *)
(* TopicService operations create / update / moveToParent / delete /       *)
(* getTopicHierarchy.                                                      *)
(*                                                                         *)
(* Topic objects are JavaScript objects shared by reference: the live map, *)
(* the version map and every parent's childTopics map can hold the same    *)
(* object.  The model therefore keeps an explicit heap of Topic objects    *)
(* addressed by references.                                                *)
(***************************************************************************)
EXTENDS Integers, Sequences, FiniteSets, TLC

\* ---------------------------------------------------------------- bounds
MaxTopics == 2          \* number of uuids the model ever generates
MaxVersion == 2         \* update is not called on a topic at this version
DeepTopics == 3         \* uuids generated under SpecDeep
DeepUpdates == 1        \* updated versions stored at a time under SpecDeep
MaxTasks == 2           \* calls that can be in flight together

\* ------------------------------------------------------ program constants
MaxNameLen == 200       \* Topic.validate: name.length > 200 is rejected

Undefined == -1            \* the JavaScript value undefined (absent parentId)
NoRef == <<0, 0, 0>>       \* null: findById found nothing

\* ---------------------------------------------------------------- strings
\* A string is a sequence of one-character strings.
Rep(n) == [i \in 1..n |-> "x"]

RECURSIVE trimStart(_)
trimStart(s) == IF s # <<>> /\ Head(s) = " " THEN trimStart(Tail(s)) ELSE s

RECURSIVE trimEnd(_)
trimEnd(s) ==
  IF s # <<>> /\ s[Len(s)] = " " THEN trimEnd(SubSeq(s, 1, Len(s) - 1)) ELSE s

\* String.prototype.trim
trim(s) == trimEnd(trimStart(s))

\* name || fallback : the empty string is falsy
OrElse(s, fallback) == IF s # <<>> THEN s ELSE fallback

\* ----------------------------------------------------------------- inputs
\* uuid 0 is never generated: an id that resolves to nothing in every state.
\* The other ids a caller can name are those generated so far (n - 1 of
\* them), live or deleted.
KnownIds(n) == 1..(n - 1)
IdArgs(n) == {0} \cup KnownIds(n)
ParentArgs(n) == IdArgs(n) \cup {Undefined}
\* create bodies <<name, content>>
CreateInputs ==
  {<< <<"a">>, <<"x">> >>, << <<>>, <<"x">> >>, << <<" ">>, <<"x">> >>,
   << Rep(MaxNameLen + 1), <<"x">> >>, << <<"a">>, <<>> >>,
   << <<"a">>, <<" ">> >>}
\* the same with the longest name that is still valid
CreateInputsFull == CreateInputs \cup {<< Rep(MaxNameLen), <<"x">> >>}
\* update bodies <<name, content>>; an absent field arrives as the empty string
UpdateInputs ==
  {<< <<>>, <<"y">> >>, << <<"b">>, <<>> >>, << <<" ">>, <<>> >>,
   << <<>>, <<" ">> >>, << Rep(MaxNameLen + 1), <<>> >>}

VARIABLES
  heap,         \* reference -> Topic object
  data,         \* BaseRepository.data : id -> reference of the live record
  versionData,  \* TopicRepository.versionData : id -> (version -> reference)
  nextId,       \* the next uuid (uuids are never reused)
  written,      \* history: <<id, version>> -> what was stored at production
  last,         \* the last service call: operation, ids given, outcome
  tasks         \* the calls in flight: where each stands, what it has read

vars == <<heap, data, versionData, nextId, written, last, tasks>>

\* ------------------------------------------------------------ Topic model
\* new Topic(name, content, parentId, id, version)
NewTopic(name, content, parentId, id, version) ==
  [id |-> id, name |-> name, content |-> content, version |-> version,
   parentId |-> parentId, children |-> <<>>, childTopics |-> <<>>]

\* Topic.validate with the name length bound off by one (> 201)
validateLenOffByOne(t) ==
  (IF t.name = <<>> \/ Len(trim(t.name)) = 0
     THEN <<"Topic name is required">> ELSE <<>>)
  \o (IF t.name # <<>> /\ Len(t.name) > MaxNameLen + 1
     THEN <<"Topic name must be less than 200 characters">> ELSE <<>>)
  \o (IF t.content = <<>> \/ Len(trim(t.content)) = 0
     THEN <<"Topic content is required">> ELSE <<>>)
  \o (IF t.version < 1
     THEN <<"Version must be a positive number">> ELSE <<>>)
  \o (IF t.parentId = t.id
     THEN <<"Topic cannot be its own parent">> ELSE <<>>)

\* Topic.validate : the list of violated rules (empty = valid)
validate(t) ==
  (IF t.name = <<>> \/ Len(trim(t.name)) = 0
     THEN <<"Topic name is required">> ELSE <<>>)
  \o (IF t.name # <<>> /\ Len(t.name) > MaxNameLen
     THEN <<"Topic name must be less than 200 characters">> ELSE <<>>)
  \o (IF t.content = <<>> \/ Len(trim(t.content)) = 0
     THEN <<"Topic content is required">> ELSE <<>>)
  \o (IF t.version < 1
     THEN <<"Version must be a positive number">> ELSE <<>>)
  \o (IF t.parentId = t.id
     THEN <<"Topic cannot be its own parent">> ELSE <<>>)

\* Topic.createNewVersion with the version copied instead of incremented
topicCreateNewVersionSameVersion(t, newContent, newName) ==
  [NewTopic(OrElse(newName, t.name), OrElse(newContent, t.content),
            t.parentId, t.id, t.version)
     EXCEPT !.children = t.children, !.childTopics = t.childTopics]

\* Topic.createNewVersion dropping the parent reference
topicCreateNewVersionNoParent(t, newContent, newName) ==
  [NewTopic(OrElse(newName, t.name), OrElse(newContent, t.content),
            Undefined, t.id, t.version + 1)
     EXCEPT !.children = t.children, !.childTopics = t.childTopics]

\* Topic.createNewVersion(newContent, newName)
topicCreateNewVersion(t, newContent, newName) ==
  [NewTopic(OrElse(newName, t.name), OrElse(newContent, t.content),
            t.parentId, t.id, t.version + 1)
     EXCEPT !.children = t.children, !.childTopics = t.childTopics]

\* array.includes
Includes(seq, x) == \E i \in 1..Len(seq) : seq[i] = x

\* Topic.addChild, on the heap h: parent object p, child object c
addChild(h, p, c) ==
  IF Includes(h[p].children, h[c].id) THEN h
  ELSE LET h1 == [h EXCEPT ![p].children = Append(@, h[c].id),
                           ![p].childTopics = Append(@, c)]
       IN [h1 EXCEPT ![c].parentId = h1[p].id]

\* does the synchronous recursion of Topic.getAllDescendants revisit an
\* object that is still on its call stack (=> RangeError, stack overflow)
RECURSIVE DescendantsOverflow(_, _, _)
DescendantsOverflow(h, r, stack) ==
  \/ r \in stack
  \/ \E i \in 1..Len(h[r].childTopics) :
       DescendantsOverflow(h, h[r].childTopics[i], stack \cup {r})

\* Topic.getAllDescendants : child, then the child's descendants, per child
RECURSIVE topicGetAllDescendants(_, _)
RECURSIVE DescendantsOfEach(_, _)
topicGetAllDescendants(h, r) == DescendantsOfEach(h, h[r].childTopics)
DescendantsOfEach(h, cs) ==
  IF cs = <<>> THEN <<>>
  ELSE <<Head(cs)>> \o topicGetAllDescendants(h, Head(cs))
       \o DescendantsOfEach(h, Tail(cs))


\* ------------------------------------------------- BaseRepository (reads)
\* Map iteration is insertion order; ids are inserted in generation order
\* and Map.set on an existing key keeps its position: ascending id.
RECURSIVE SortedIds(_)
SortedIds(S) ==
  IF S = {} THEN <<>>
  ELSE LET m == CHOOSE x \in S : \A y \in S : x <= y
       IN <<m>> \o SortedIds(S \ {m})

\* BaseRepository.exists
exists(d, id) == id \in DOMAIN d

\* BaseRepository.findById
findById(d, id) == IF id \in DOMAIN d THEN d[id] ELSE NoRef

\* BaseRepository.findAll : the live objects in Map order
findAll(d) == [i \in 1..Cardinality(DOMAIN d) |-> d[SortedIds(DOMAIN d)[i]]]

\* TopicRepository.findByParentId = findBy({parentId}).  findBy compares
\* strings with toLowerCase().includes(); on lower-case uuids of equal
\* length that is equality.  A record without parentId never matches.
findByParentId(h, d, parentId) ==
  SelectSeq(findAll(d), LAMBDA r : h[r].parentId = parentId)

\* TopicRepository.canDelete answering true whatever the children
canDeleteAlways(h, d, id) == TRUE

\* TopicRepository.canDelete
canDelete(h, d, id) == Len(findByParentId(h, d, id)) = 0

\* ----------------------------------------- TopicRepository hierarchy load
\* loadChildrenRecursively has no visited set: it never returns when the
\* live parentId relation below the root contains a cycle.
RECURSIVE LoadDiverges(_, _, _, _)
LoadDiverges(h, d, r, stack) ==
  \/ r \in stack
  \/ \E i \in 1..Len(findByParentId(h, d, h[r].id)) :
       LoadDiverges(h, d, findByParentId(h, d, h[r].id)[i], stack \cup {r})

\* TopicRepository.loadChildrenRecursively : the heap after the load
RECURSIVE loadChildrenRecursively(_, _, _)
RECURSIVE LoadEach(_, _, _, _)
loadChildrenRecursively(h, d, r) ==
  LoadEach(h, d, r, findByParentId(h, d, h[r].id))
LoadEach(h, d, r, cs) ==
  IF cs = <<>> THEN h
  ELSE LoadEach(loadChildrenRecursively(addChild(h, r, Head(cs)), d, Head(cs)),
                d, r, Tail(cs))

\* TopicRepository.getTopicHierarchy
getTopicHierarchy(h, d, id) ==
  LET root == findById(d, id) IN
  IF root = NoRef THEN [status |-> "ok", heap |-> h, root |-> NoRef]
  ELSE IF LoadDiverges(h, d, root, {})
    THEN [status |-> "diverged", heap |-> h, root |-> root]
  ELSE [status |-> "ok", heap |-> loadChildrenRecursively(h, d, root),
        root |-> root]

\* TopicRepository.getAllDescendants
getAllDescendants(h, d, id) ==
  LET hy == getTopicHierarchy(h, d, id) IN
  IF hy.status = "diverged" \/ hy.root = NoRef
    THEN [status |-> hy.status, heap |-> hy.heap, result |-> <<>>]
  ELSE IF DescendantsOverflow(hy.heap, hy.root, {})
    THEN [status |-> "RangeError", heap |-> hy.heap, result |-> <<>>]
  ELSE [status |-> "ok", heap |-> hy.heap,
        result |-> topicGetAllDescendants(hy.heap, hy.root)]

\* descendants.some(desc => desc.id === newParentId)
SomeHasId(h, refs, id) == \E i \in 1..Len(refs) : h[refs[i]].id = id

\* TopicService.wouldCreateCircularReference
wouldCreateCircularReference(h, d, topicId, newParentId) ==
  LET ga == getAllDescendants(h, d, topicId) IN
  [status |-> ga.status, heap |-> ga.heap,
   result |-> SomeHasId(ga.heap, ga.result, newParentId)]


\* ------------------------------------------------------------ Map helpers
\* Map.set
MapSet(f, k, v) == [x \in DOMAIN f \cup {k} |-> IF x = k THEN v ELSE f[x]]

\* Map.delete
MapDelete(f, k) == [x \in DOMAIN f \ {k} |-> f[x]]

\* a new object: a reference no object of the heap has
NewRef(h, id, version) ==
  <<id, version,
    CHOOSE n \in 0..Cardinality(DOMAIN h) :
      /\ <<id, version, n>> \notin DOMAIN h
      /\ \A m \in 0..(n - 1) : <<id, version, m>> \in DOMAIN h>>

\* the outcome of a repository or service call
Outcome(h, d, vd, result) ==
  [heap |-> h, data |-> d, versionData |-> vd, result |-> result]

\* ------------------------------------------------ TopicRepository (writes)
\* TopicRepository.createNewVersion without versionMap.set
repoCreateNewVersionNoHistory(h, d, vd, topicId, updatedTopic) ==
  LET existingTopic == findById(d, topicId) IN
  IF existingTopic = NoRef THEN Outcome(h, d, vd, "NotFound")
  ELSE
    LET newVersion == topicCreateNewVersion(h[existingTopic],
                        updatedTopic.content, updatedTopic.name)
        ref == NewRef(h, topicId, newVersion.version)
    IN Outcome(MapSet(h, ref, newVersion), MapSet(d, topicId, ref), vd, "ok")

\* TopicRepository.createNewVersion
repoCreateNewVersion(h, d, vd, topicId, updatedTopic) ==
  LET existingTopic == findById(d, topicId) IN
  IF existingTopic = NoRef THEN Outcome(h, d, vd, "NotFound")
  ELSE
    LET newVersion == topicCreateNewVersion(h[existingTopic],
                        updatedTopic.content, updatedTopic.name)
        ref == NewRef(h, topicId, newVersion.version)
        versionMap == IF topicId \in DOMAIN vd THEN vd[topicId] ELSE <<>>
    IN Outcome(MapSet(h, ref, newVersion),
               MapSet(d, topicId, ref),
               MapSet(vd, topicId, MapSet(versionMap, newVersion.version, ref)),
               "ok")

\* TopicRepository.create, then BaseRepository.create
repoCreate(h, d, vd, topic) ==
  IF exists(d, topic.id) THEN repoCreateNewVersion(h, d, vd, topic.id, topic)
  ELSE
    LET ref == NewRef(h, topic.id, topic.version)
        h1 == MapSet(h, ref, topic)
        vd1 == MapSet(vd, topic.id, MapSet(<<>>, topic.version, ref))
    IN IF validate(topic) # <<>> THEN Outcome(h1, d, vd1, "ValidationFailed")
       ELSE Outcome(h1, MapSet(d, topic.id, ref), vd1, "ok")

\* BaseRepository.update(id, {parentId}) : assign, validate, store
baseUpdateParent(h, d, vd, id, parentId) ==
  LET entity == findById(d, id) IN
  IF entity = NoRef THEN Outcome(h, d, vd, "null")
  ELSE
    LET h1 == [h EXCEPT ![entity].parentId = parentId] IN
    IF validate(h1[entity]) # <<>> THEN Outcome(h1, d, vd, "ValidationFailed")
    ELSE Outcome(h1, MapSet(d, id, entity), vd, "ok")

\* TopicRepository.moveToParent answering without storing the new parent
repoMoveToParentNoAssign(h, d, vd, topicId, newParentId) ==
  LET topic == findById(d, topicId) IN
  IF topic = NoRef THEN Outcome(h, d, vd, "null")
  ELSE IF newParentId # Undefined /\ ~exists(d, newParentId)
    THEN Outcome(h, d, vd, "ParentNotFound")
  ELSE
    LET ga == IF newParentId # Undefined THEN getAllDescendants(h, d, topicId)
              ELSE [status |-> "ok", heap |-> h, result |-> <<>>]
    IN IF ga.status # "ok" THEN Outcome(ga.heap, d, vd, ga.status)
       ELSE IF SomeHasId(ga.heap, ga.result, newParentId)
         THEN Outcome(ga.heap, d, vd, "Circular")
       ELSE Outcome(ga.heap, d, vd, "ok")

\* TopicRepository.moveToParent
repoMoveToParent(h, d, vd, topicId, newParentId) ==
  LET topic == findById(d, topicId) IN
  IF topic = NoRef THEN Outcome(h, d, vd, "null")
  ELSE IF newParentId # Undefined /\ ~exists(d, newParentId)
    THEN Outcome(h, d, vd, "ParentNotFound")
  ELSE
    LET ga == IF newParentId # Undefined THEN getAllDescendants(h, d, topicId)
              ELSE [status |-> "ok", heap |-> h, result |-> <<>>]
    IN IF ga.status # "ok" THEN Outcome(ga.heap, d, vd, ga.status)
       ELSE IF SomeHasId(ga.heap, ga.result, newParentId)
         THEN Outcome(ga.heap, d, vd, "Circular")
       ELSE baseUpdateParent([ga.heap EXCEPT ![topic].parentId = newParentId],
                             d, vd, topicId, newParentId)

\* TopicRepository.delete without versionData.delete(id)
repoDeleteKeepsHistory(h, d, vd, id) ==
  IF ~canDelete(h, d, id) THEN Outcome(h, d, vd, "HasChildren")
  ELSE IF exists(d, id) THEN Outcome(h, MapDelete(d, id), vd, "ok")
  ELSE Outcome(h, d, vd, "false")

\* TopicRepository.delete, then BaseRepository.delete
repoDelete(h, d, vd, id) ==
  IF ~canDelete(h, d, id) THEN Outcome(h, d, vd, "HasChildren")
  ELSE IF exists(d, id) THEN Outcome(h, MapDelete(d, id), MapDelete(vd, id), "ok")
  ELSE Outcome(h, d, MapDelete(vd, id), "false")

\* TopicRepository.findByVersion
findByVersion(vd, topicId, version) ==
  IF topicId \notin DOMAIN vd THEN NoRef
  ELSE IF version \notin DOMAIN vd[topicId] THEN NoRef
  ELSE vd[topicId][version]

\* versions.sort((a, b) => b.version - a.version) : insert by descending version
RECURSIVE SortDescByVersion(_, _)
SortDescByVersion(h, refs) ==
  IF refs = {} THEN <<>>
  ELSE LET m == CHOOSE r \in refs : \A q \in refs : h[r].version >= h[q].version
       IN <<m>> \o SortDescByVersion(h, refs \ {m})

\* TopicRepository.getAllVersions
getAllVersions(h, vd, topicId) ==
  IF topicId \notin DOMAIN vd THEN <<>>
  ELSE SortDescByVersion(h, {vd[topicId][v] : v \in DOMAIN vd[topicId]})


\* ------------------------------------------------------------ TopicService
\* TopicService.create (id: the uuid the Topic constructor generates)
serviceCreate(h, d, vd, id, name, content, parentId) ==
  IF name = <<>> \/ content = <<>> THEN Outcome(h, d, vd, "Required")
  ELSE IF parentId # Undefined /\ findById(d, parentId) = NoRef
    THEN Outcome(h, d, vd, "ParentNotFound")
  ELSE
    LET topic == NewTopic(name, content, parentId, id, 1) IN
    IF validate(topic) # <<>> THEN Outcome(h, d, vd, "ValidationFailed")
    ELSE repoCreate(h, d, vd, topic)

\* TopicService.update
serviceUpdate(h, d, vd, id, name, content, parentId) ==
  LET existingTopic == findById(d, id) IN
  IF existingTopic = NoRef THEN Outcome(h, d, vd, "null")
  ELSE
    LET updatedTopic == topicCreateNewVersion(h[existingTopic],
                          OrElse(content, h[existingTopic].content),
                          OrElse(name, h[existingTopic].name))
        parentChange == parentId # Undefined
                        /\ parentId # h[existingTopic].parentId
        w == IF parentChange /\ findById(d, parentId) # NoRef
               THEN wouldCreateCircularReference(h, d, id, parentId)
               ELSE [status |-> "ok", heap |-> h, result |-> FALSE]
        moved == IF parentChange
                   THEN [updatedTopic EXCEPT !.parentId = parentId]
                   ELSE updatedTopic
    IN IF parentChange /\ findById(d, parentId) = NoRef
         THEN Outcome(h, d, vd, "ParentNotFound")
       ELSE IF w.status # "ok" THEN Outcome(w.heap, d, vd, w.status)
       ELSE IF w.result THEN Outcome(w.heap, d, vd, "Circular")
       ELSE IF validate(moved) # <<>>
         THEN Outcome(w.heap, d, vd, "ValidationFailed")
       ELSE repoCreateNewVersion(w.heap, d, vd, id, moved)

\* TopicService.moveToParent
serviceMoveToParent(h, d, vd, topicId, newParentId) ==
  LET w == IF newParentId # Undefined
             THEN wouldCreateCircularReference(h, d, topicId, newParentId)
             ELSE [status |-> "ok", heap |-> h, result |-> FALSE]
  IN IF w.status # "ok" THEN Outcome(w.heap, d, vd, w.status)
     ELSE IF w.result THEN Outcome(w.heap, d, vd, "Circular")
     ELSE repoMoveToParent(w.heap, d, vd, topicId, newParentId)

\* TopicService.delete
serviceDelete(h, d, vd, id) ==
  IF findById(d, id) = NoRef THEN Outcome(h, d, vd, "false")
  ELSE IF ~canDelete(h, d, id) THEN Outcome(h, d, vd, "HasChildren")
  ELSE repoDelete(h, d, vd, id)

\* --------------------------------------------------------- unreachable objects
\* the objects reachable from the set S of objects through childTopics
RECURSIVE ReachFrom(_, _)
ReachFrom(h, S) ==
  LET N == S \cup UNION {{h[r].childTopics[i] :
                             i \in 1..Len(h[r].childTopics)} : r \in S}
  IN IF N = S THEN S ELSE ReachFrom(h, N)

\* After Map.delete the objects that neither map reaches, directly or through
\* a childTopics map, are garbage: no code can read them again.
Collect(h, d, vd) ==
  LET roots == {d[i] : i \in DOMAIN d}
               \cup UNION {{vd[i][v] : v \in DOMAIN vd[i]} : i \in DOMAIN vd}
  IN [r \in ReachFrom(h, roots) |-> h[r]]

\* ------------------------------------------------------------------ state
Call(op, id, parentId, result) ==
  [op |-> op, id |-> id, parentId |-> parentId, result |-> result,
   out |-> <<>>]

\* a query with two arguments and the value it returned
Answer(op, id, parentId, result, out) ==
  [op |-> op, id |-> id, parentId |-> parentId, result |-> result,
   out |-> out]

\* a call slot: the call, the await it is suspended at (pc), its arguments
\* and its local variables; before is the parentId a move replaced
Idle ==
  [op |-> "idle", pc |-> "idle", id |-> 0, parentId |-> Undefined,
   ref |-> NoRef, name |-> <<>>, content |-> <<>>, queue |-> <<>>,
   result |-> <<>>, visited |-> {}, before |-> Undefined, outcome |-> ""]

Init ==
  /\ heap = <<>>
  /\ data = <<>>
  /\ versionData = <<>>
  /\ nextId = 1
  /\ written = <<>>
  /\ last = Call("init", 0, Undefined, "ok")
  /\ tasks = [t \in 1..MaxTasks |-> Idle]

\* a call that never returns starves the event loop: nothing runs after it
Running == last.result # "diverged"

Stored(name, content) == [name |-> name, content |-> content]

\* POST /api/topics
CreateTopic(name, content, parentId) ==
  /\ Running
  /\ \E o \in {serviceCreate(heap, data, versionData, nextId, name, content,
                            parentId)} :
        /\ heap' = o.heap
        /\ data' = o.data
        /\ versionData' = o.versionData
        /\ nextId' = IF o.result = "ok" THEN nextId + 1 ELSE nextId
        /\ written' = IF o.result = "ok"
                        THEN MapSet(written, <<nextId, 1>>,
                                    Stored(name, content))
                        ELSE written
        /\ last' = Call("create", nextId, parentId, o.result)
  /\ UNCHANGED tasks

\* PUT /api/topics/:id
UpdateTopic(id, name, content, parentId) ==
  /\ Running
  /\ \E o \in {serviceUpdate(heap, data, versionData, id, name, content,
                            parentId)} :
        /\ heap' = o.heap
        /\ data' = o.data
        /\ versionData' = o.versionData
        /\ nextId' = nextId
        /\ written' = IF o.result = "ok"
                        THEN MapSet(written, <<id, heap[data[id]].version + 1>>,
                               Stored(OrElse(name, heap[data[id]].name),
                                      OrElse(content, heap[data[id]].content)))
                        ELSE written
        /\ last' = Call("update", id, parentId, o.result)
  /\ UNCHANGED tasks

\* POST /api/topics/:id/move
MoveTopic(id, newParentId) ==
  /\ Running
  /\ \E o \in {serviceMoveToParent(heap, data, versionData, id, newParentId)} :
        /\ heap' = o.heap
        /\ data' = o.data
        /\ versionData' = o.versionData
        /\ last' = Call("move", id, newParentId, o.result)
  /\ UNCHANGED <<nextId, written, tasks>>

\* DELETE /api/topics/:id
DeleteTopic(id) ==
  /\ Running
  /\ \E o \in {serviceDelete(heap, data, versionData, id)} :
        /\ heap' = IF o.result = "ok"
                     THEN Collect(o.heap, o.data, o.versionData)
                     ELSE o.heap
        /\ data' = o.data
        /\ versionData' = o.versionData
        /\ written' = IF o.result = "ok"
                        THEN [k \in {x \in DOMAIN written : x[1] # id}
                                |-> written[k]]
                        ELSE written
        /\ last' = Call("delete", id, Undefined, o.result)
  /\ UNCHANGED <<nextId, tasks>>

\* GET /api/topics/:id/hierarchy
GetTopicHierarchy(id) ==
  /\ Running
  /\ \E hy \in {getTopicHierarchy(heap, data, id)} :
        /\ heap' = hy.heap
        /\ last' = Call("hierarchy", id, Undefined,
                        IF hy.status # "ok" THEN hy.status
                        ELSE IF hy.root = NoRef THEN "null" ELSE "ok")
  /\ UNCHANGED <<data, versionData, nextId, written, tasks>>

\* no more than MaxTopics uuids are generated, and no topic goes beyond
\* version MaxVersion
MayCreate == nextId <= MaxTopics
MayUpdate(id) == exists(data, id) => heap[data[id]].version < MaxVersion

Next ==
  \/ \E c \in CreateInputs, p \in ParentArgs(nextId) :
       MayCreate /\ CreateTopic(c[1], c[2], p)
  \/ \E i \in KnownIds(nextId), u \in UpdateInputs, p \in ParentArgs(nextId) :
       MayUpdate(i) /\ UpdateTopic(i, u[1], u[2], p)
  \/ \E i \in KnownIds(nextId), p \in ParentArgs(nextId) : MoveTopic(i, p)
  \/ \E i \in IdArgs(nextId) : DeleteTopic(i)
  \/ \E i \in KnownIds(nextId) : GetTopicHierarchy(i)

Spec == Init /\ [][Next]_vars

\* ---------------------------------------------------------------------------
\* SpecDeep: one more topic than Spec, with well-formed requests only: valid
\* bodies, live ids, no move of a topic under itself, no delete.
UpdatesStored == Cardinality({k \in DOMAIN written : k[2] > 1})

NextDeep ==
  \/ \E p \in DOMAIN data \cup {Undefined} :
       nextId <= DeepTopics /\ CreateTopic(<<"a">>, <<"x">>, p)
  \/ \E i \in DOMAIN data :
       UpdatesStored < DeepUpdates /\ UpdateTopic(i, <<>>, <<"y">>, Undefined)
  \/ \E i \in DOMAIN data :
       \E p \in (DOMAIN data \ {i}) \cup {Undefined} : MoveTopic(i, p)
  \/ \E i \in DOMAIN data : GetTopicHierarchy(i)

SpecDeep == Init /\ [][NextDeep]_vars


\* ---------------------------------------------------------------------------
\* SpecCreate: create with every kind of body, the longest valid name among
\* them, and delete.
NextCreate ==
  \/ \E c \in CreateInputsFull, p \in ParentArgs(nextId) :
       nextId <= DeepTopics /\ CreateTopic(c[1], c[2], p)
  \/ \E i \in IdArgs(nextId) : DeleteTopic(i)

SpecCreate == Init /\ [][NextCreate]_vars

\* ===========================================================================
\* Properties
\* ===========================================================================
LiveIds == DOMAIN data
Live(i) == heap[data[i]]

\* the live parentId relation and the live versions, as functions of the id
LiveParents == [i \in LiveIds |-> Live(i).parentId]
LiveVersions == [i \in LiveIds |-> Live(i).version]

\* following parentId links from the live topic cur, at most n times, reaches
\* the topic start
RECURSIVE ReachesByParent(_, _, _)
ReachesByParent(cur, start, n) ==
  /\ n > 0
  /\ cur \in LiveIds
  /\ \/ Live(cur).parentId = start
     \/ ReachesByParent(Live(cur).parentId, start, n - 1)

\* x is a descendant of a under the live parentId relation
IsDescendant(x, a) == ReachesByParent(x, a, Cardinality(LiveIds))

Failures ==
  {"Required", "ParentNotFound", "ValidationFailed", "Circular", "HasChildren",
   "NotFound", "RangeError"}

\* C1: in every reachable state the parentId relation over live topics is a
\* forest: no live topic is its own parent or reachable from itself by
\* following parentId links.
C1_Forest == \A i \in LiveIds : ~IsDescendant(i, i)

\* C4: move(id, id) fails with a circular-reference error (thrown by the
\* descendant check or by the own-parent validation) and the live record of
\* id keeps the parentId it had before the call.
C4_SelfMoveRejected ==
  [][(last'.op = "move" /\ last'.id = last'.parentId /\ last'.id \in LiveIds)
       => /\ last'.result \in {"Circular", "ValidationFailed"}
          /\ last'.id \in DOMAIN data'
          /\ heap'[data'[last'.id]].parentId = Live(last'.id).parentId]_vars


\* the call that has just returned
Did(op, result) == last'.op = op /\ last'.result = result

\* C2: a topic is created with version 1; a successful update of a live id
\* sets the live version to the previous live version plus 1, a number the
\* history did not hold yet and the only one it gains; no other call changes
\* the version of a topic that stays live.
C2_VersionsIncrement ==
  [][/\ Did("create", "ok")
          => /\ last'.id \notin LiveIds
             /\ heap'[data'[last'.id]].version = 1
             /\ DOMAIN versionData'[last'.id] = {1}
     /\ Did("update", "ok")
          => /\ last'.id \in LiveIds
             /\ heap'[data'[last'.id]].version = Live(last'.id).version + 1
             /\ Live(last'.id).version + 1 \notin DOMAIN versionData[last'.id]
             /\ DOMAIN versionData'[last'.id]
                  = DOMAIN versionData[last'.id]
                      \cup {Live(last'.id).version + 1}
     /\ \A i \in LiveIds \cap DOMAIN data' :
          ~(Did("update", "ok") /\ last'.id = i)
            => /\ heap'[data'[i]].version = Live(i).version
               /\ DOMAIN versionData'[i] = DOMAIN versionData[i]]_vars

C2_Updated ==
  /\ last.op = "update"
  /\ last.result = "ok"
  /\ Live(last.id).version = 2
  /\ DOMAIN versionData[last.id] = {1, 2}

\* C3: a move of a topic under one of its current descendants fails, and the
\* parentId and the version of every live topic are what they were before.
C3_MoveUnderDescendantRejected ==
  [][(last'.op = "move" /\ last'.id \in LiveIds
        /\ last'.parentId # last'.id
        /\ IsDescendant(last'.parentId, last'.id))
       => /\ last'.result \in Failures
          /\ DOMAIN data' = LiveIds
          /\ \A i \in LiveIds :
               /\ heap'[data'[i]].parentId = Live(i).parentId
               /\ heap'[data'[i]].version = Live(i).version]_vars


HasLiveChild(id) == \E j \in LiveIds : Live(j).parentId = id

\* the other live topics keep their records
OthersKept(id) ==
  \A j \in LiveIds \ {id} :
    j \in DOMAIN data' /\ data'[j] = data[j] /\ heap'[data'[j]] = Live(j)

\* C5: delete of a live topic with a live child fails and changes nothing;
\* delete of a live topic without live child succeeds and removes the live
\* record and the whole version chain (getAllVersions is empty, findByVersion
\* finds no version); delete of an unknown id returns false and changes
\* nothing.
C5_Delete ==
  [][last'.op = "delete"
       => /\ (last'.id \in LiveIds /\ HasLiveChild(last'.id))
               => /\ last'.result = "HasChildren"
                  /\ UNCHANGED <<heap, data, versionData>>
          /\ (last'.id \in LiveIds /\ ~HasLiveChild(last'.id))
               => /\ last'.result = "ok"
                  /\ DOMAIN data' = LiveIds \ {last'.id}
                  /\ getAllVersions(heap', versionData', last'.id) = <<>>
                  /\ \A v \in 1..(MaxVersion + 1) :
                       findByVersion(versionData', last'.id, v) = NoRef
                  /\ OthersKept(last'.id)
          /\ last'.id \notin LiveIds
               => /\ last'.result = "false"
                  /\ UNCHANGED <<heap, data, versionData>>]_vars

C5_LeafDeleted ==
  /\ last.op = "delete"
  /\ last.result = "ok"
  /\ last.id \notin LiveIds
  /\ LiveIds # {}

\* C6: every live topic's parentId is absent or the id of a live topic.
C6_NoDanglingParent ==
  \A i \in LiveIds :
    Live(i).parentId = Undefined \/ Live(i).parentId \in LiveIds

C6_ParentKept ==
  /\ last.op = "delete"
  /\ last.result = "HasChildren"
  /\ \E i \in LiveIds : Live(i).parentId = last.id /\ i # last.id

\* a create request the service must refuse
BadCreate(name, content, parentId) ==
  \/ parentId # Undefined /\ parentId \notin LiveIds
  \/ name = <<>>
  \/ content = <<>>
  \/ Len(name) > MaxNameLen

\* C7: create fails when parentId is given and is no live topic, when name
\* or content is empty, or when the name has more than 200 characters; a
\* failed create leaves the live records, the version history and every
\* stored object as they were.
C7_CreateRejected ==
  [][\A c \in CreateInputsFull, p \in ParentArgs(nextId) :
       CreateTopic(c[1], c[2], p)
         => /\ BadCreate(c[1], c[2], p) => last'.result \in Failures
            /\ last'.result # "ok"
                 => UNCHANGED <<heap, data, versionData, nextId>>]_vars

C7_RefusedWithRecords ==
  /\ last.op = "create"
  /\ last.result = "ValidationFailed"
  /\ last.parentId \in LiveIds
  /\ \E i \in LiveIds : Len(Live(i).name) = MaxNameLen

Snapshot(h, r) ==
  [name |-> h[r].name, content |-> h[r].content, parentId |-> h[r].parentId]

\* C9: the version history is append-only: a snapshot stored under
\* (id, version) keeps its name, content and parentId through every later
\* call, as long as the id is not deleted.
C9_HistoryAppendOnly ==
  [][\A i \in DOMAIN versionData \cap DOMAIN versionData' :
       \A v \in DOMAIN versionData[i] :
         /\ v \in DOMAIN versionData'[i]
         /\ Snapshot(heap', versionData'[i][v])
              = Snapshot(heap, versionData[i][v])]_vars

\* C10: an update that requests no parent change leaves the topic its id and
\* its parentId, and every other topic its parentId.
C10_UpdateKeepsParent ==
  [][(Did("update", "ok") /\ last'.parentId = Undefined)
       => /\ DOMAIN data' = LiveIds
          /\ heap'[data'[last'.id]].id = last'.id
          /\ \A j \in LiveIds :
               heap'[data'[j]].parentId = Live(j).parentId]_vars

C10_ChildUpdated ==
  /\ last.op = "update"
  /\ last.result = "ok"
  /\ last.parentId = Undefined
  /\ Live(last.id).version = 2
  /\ Live(last.id).parentId \in LiveIds \ {last.id}


\* the version numbers stored for each id
HistoryVersions(vd) == [i \in DOMAIN vd |-> DOMAIN vd[i]]

\* C11: a successful move sets the live parentId of the topic to the new
\* parent and changes neither its live version, nor the version numbers of
\* any history, nor the parentId of any other topic.
C11_MoveFrame ==
  [][Did("move", "ok")
       => /\ DOMAIN data' = LiveIds
          /\ heap'[data'[last'.id]].parentId = last'.parentId
          /\ heap'[data'[last'.id]].version = Live(last'.id).version
          /\ HistoryVersions(versionData') = HistoryVersions(versionData)
          /\ \A j \in LiveIds \ {last'.id} :
               heap'[data'[j]].parentId = Live(j).parentId]_vars

C11_Moved ==
  /\ last.op = "move"
  /\ last.result = "ok"
  /\ last.parentId \in LiveIds \ {last.id}
  /\ Live(last.id).parentId = last.parentId
  /\ Live(last.id).version = 2

\* the ids a sequence of ids holds
Range(seq) == {seq[k] : k \in 1..Len(seq)}

\* C12: in every reachable state the children list of each live topic holds
\* exactly the live topics whose parentId is that topic's id.
C12_ChildrenMatchParents ==
  \A i \in LiveIds :
    Range(Live(i).children) = {j \in LiveIds : Live(j).parentId = i}

\* ===========================================================================
\* TopicHierarchyAlgorithm (queries over the live map)
\* ===========================================================================
\* the result of a query: "ok" with a value, or a loop that never ends
Returned(value) == [status |-> "ok", result |-> value]
Diverged == [status |-> "diverged", result |-> <<>>]

\* TopicHierarchyAlgorithm.getAllAncestors : the while loop, with the
\* ancestors pushed so far; a parent pushed twice means the loop never ends
RECURSIVE AllAncestorsLoop(_, _, _, _)
AllAncestorsLoop(h, d, currentTopicId, ancestors) ==
  LET topic == findById(d, currentTopicId) IN
  IF topic = NoRef \/ h[topic].parentId = Undefined THEN Returned(ancestors)
  ELSE
    LET parent == findById(d, h[topic].parentId) IN
    IF parent = NoRef THEN Returned(ancestors)
    ELSE IF Includes(ancestors, h[parent].id) THEN Diverged
    ELSE AllAncestorsLoop(h, d, h[parent].id, Append(ancestors, h[parent].id))

getAllAncestors(h, d, topicId) == AllAncestorsLoop(h, d, topicId, <<>>)

\* TopicHierarchyAlgorithm.calculateDepth : the while loop, with the ids
\* already walked through; walking through one twice means it never ends
RECURSIVE DepthLoop(_, _, _, _, _)
DepthLoop(h, d, currentTopicId, depth, walked) ==
  LET topic == findById(d, currentTopicId) IN
  IF topic = NoRef \/ h[topic].parentId = Undefined THEN Returned(depth)
  ELSE IF currentTopicId \in walked THEN Diverged
  ELSE DepthLoop(h, d, h[topic].parentId, depth + 1,
                 walked \cup {currentTopicId})

calculateDepth(h, d, topicId) == DepthLoop(h, d, topicId, 0, {})

\* TopicHierarchyAlgorithm.isAncestor
isAncestor(h, d, ancestorId, descendantId) ==
  IF ancestorId = descendantId THEN Returned(FALSE)
  ELSE LET ancestors == getAllAncestors(h, d, descendantId) IN
       IF ancestors.status # "ok" THEN Diverged
       ELSE Returned(Includes(ancestors.result, ancestorId))

\* TopicHierarchyAlgorithm.getAncestorPath : the topic, then its ancestors
getAncestorPath(h, d, topicId) ==
  LET startTopic == findById(d, topicId)
      ancestors == getAllAncestors(h, d, topicId)
  IN IF ancestors.status # "ok" THEN Diverged
     ELSE Returned((IF startTopic # NoRef THEN <<topicId>> ELSE <<>>)
                     \o ancestors.result)

\* the nested for loops of getCommonAncestor: the first element of
\* ancestors1, in order, that ancestors2 holds
RECURSIVE FirstShared(_, _)
FirstShared(ancestors1, ancestors2) ==
  IF ancestors1 = <<>> THEN <<>>
  ELSE IF Includes(ancestors2, Head(ancestors1)) THEN <<Head(ancestors1)>>
  ELSE FirstShared(Tail(ancestors1), ancestors2)

\* TopicHierarchyAlgorithm.getCommonAncestor : <<id>>, or <<>> for null
getCommonAncestor(h, d, topicId1, topicId2) ==
  IF topicId1 = topicId2
    THEN Returned(IF findById(d, topicId1) # NoRef THEN <<topicId1>> ELSE <<>>)
  ELSE
    LET ancestors1 == getAncestorPath(h, d, topicId1)
        ancestors2 == getAncestorPath(h, d, topicId2)
    IN IF ancestors1.status # "ok" \/ ancestors2.status # "ok" THEN Diverged
       ELSE Returned(FirstShared(ancestors1.result, ancestors2.result))

\* what getRelationship returns (description and commonAncestor left out)
Relationship(type, distance) ==
  [status |-> "ok", type |-> type, distance |-> distance]
RelationshipDiverged == [status |-> "diverged", type |-> "", distance |-> 0]

\* the depths subtracted the wrong way round
DepthDifferenceSwapped(h, d, type, id1, id2) ==
  LET depth1 == calculateDepth(h, d, id1)
      depth2 == calculateDepth(h, d, id2)
  IN IF depth1.status # "ok" \/ depth2.status # "ok"
       THEN RelationshipDiverged
       ELSE Relationship(type, depth2.result - depth1.result)

\* calculateDepth(id1) - calculateDepth(id2), as a relationship of that type
DepthDifference(h, d, type, id1, id2) ==
  LET depth1 == calculateDepth(h, d, id1)
      depth2 == calculateDepth(h, d, id2)
  IN IF depth1.status # "ok" \/ depth2.status # "ok"
       THEN RelationshipDiverged
       ELSE Relationship(type, depth1.result - depth2.result)

\* the cousins branch of getRelationship
Cousins(h, d, topicId1, topicId2) ==
  LET commonAncestor == getCommonAncestor(h, d, topicId1, topicId2) IN
  IF commonAncestor.status # "ok" THEN RelationshipDiverged
  ELSE IF commonAncestor.result = <<>> THEN Relationship("unrelated", -1)
  ELSE
    LET distance1 == DepthDifference(h, d, "cousins", topicId1,
                                     commonAncestor.result[1])
        distance2 == DepthDifference(h, d, "cousins", topicId2,
                                     commonAncestor.result[1])
    IN IF distance1.status # "ok" \/ distance2.status # "ok"
         THEN RelationshipDiverged
         ELSE Relationship("cousins", distance1.distance + distance2.distance)

\* getRelationship without the test of topic2.parentId
getRelationshipNoParentChild(h, d, topicId1, topicId2) ==
  LET topic1 == findById(d, topicId1)
      topic2 == findById(d, topicId2)
  IN
  IF topicId1 = topicId2 THEN Relationship("same", 0)
  ELSE IF topic1 = NoRef \/ topic2 = NoRef THEN Relationship("unrelated", -1)
  ELSE IF h[topic1].parentId = topicId2 THEN Relationship("child-parent", 1)
  ELSE IF h[topic1].parentId # Undefined
            /\ h[topic1].parentId = h[topic2].parentId
    THEN Relationship("siblings", 2)
  ELSE
    LET isAncestor12 == isAncestor(h, d, topicId1, topicId2) IN
    IF isAncestor12.status # "ok" THEN RelationshipDiverged
    ELSE IF isAncestor12.result
      THEN DepthDifference(h, d, "ancestor-descendant", topicId2, topicId1)
    ELSE
      LET isAncestor21 == isAncestor(h, d, topicId2, topicId1) IN
      IF isAncestor21.status # "ok" THEN RelationshipDiverged
      ELSE IF isAncestor21.result
        THEN DepthDifference(h, d, "descendant-ancestor", topicId1, topicId2)
      ELSE Cousins(h, d, topicId1, topicId2)

\* TopicHierarchyAlgorithm.getRelationship
getRelationship(h, d, topicId1, topicId2) ==
  LET topic1 == findById(d, topicId1)
      topic2 == findById(d, topicId2)
  IN
  IF topicId1 = topicId2 THEN Relationship("same", 0)
  ELSE IF topic1 = NoRef \/ topic2 = NoRef THEN Relationship("unrelated", -1)
  ELSE IF h[topic1].parentId = topicId2 THEN Relationship("child-parent", 1)
  ELSE IF h[topic2].parentId = topicId1 THEN Relationship("parent-child", 1)
  ELSE IF h[topic1].parentId # Undefined
            /\ h[topic1].parentId = h[topic2].parentId
    THEN Relationship("siblings", 2)
  ELSE
    LET isAncestor12 == isAncestor(h, d, topicId1, topicId2) IN
    IF isAncestor12.status # "ok" THEN RelationshipDiverged
    ELSE IF isAncestor12.result
      THEN DepthDifference(h, d, "ancestor-descendant", topicId2, topicId1)
    ELSE
      LET isAncestor21 == isAncestor(h, d, topicId2, topicId1) IN
      IF isAncestor21.status # "ok" THEN RelationshipDiverged
      ELSE IF isAncestor21.result
        THEN DepthDifference(h, d, "descendant-ancestor", topicId1, topicId2)
      ELSE Cousins(h, d, topicId1, topicId2)

\* ===========================================================================
\* TopicTreeTraversal
\* ===========================================================================
\* the result list and the visited set the recursive traversals share
Walk(result, visited) == [result |-> result, visited |-> visited]

\* TopicTreeTraversal.dfsRecursive, and its loop over the children
RECURSIVE dfsRecursive(_, _, _, _)
RECURSIVE dfsEach(_, _, _, _)
dfsRecursive(h, d, topicId, w) ==
  IF topicId \in w.visited THEN w
  ELSE IF findById(d, topicId) = NoRef
    THEN Walk(w.result, w.visited \cup {topicId})
  ELSE dfsEach(h, d, findByParentId(h, d, topicId),
               Walk(Append(w.result, topicId), w.visited \cup {topicId}))
dfsEach(h, d, children, w) ==
  IF children = <<>> THEN w
  ELSE dfsEach(h, d, Tail(children),
               dfsRecursive(h, d, h[Head(children)].id, w))

\* TopicTreeTraversal.traverseDepthFirst
traverseDepthFirst(h, d, rootTopicId) ==
  dfsRecursive(h, d, rootTopicId, Walk(<<>>, {})).result

\* TopicTreeTraversal.preOrderRecursive, and its loop over the children
RECURSIVE preOrderRecursive(_, _, _, _)
RECURSIVE preOrderEach(_, _, _, _)
preOrderRecursive(h, d, topicId, w) ==
  IF topicId \in w.visited THEN w
  ELSE IF findById(d, topicId) = NoRef
    THEN Walk(w.result, w.visited \cup {topicId})
  ELSE preOrderEach(h, d, findByParentId(h, d, topicId),
                    Walk(Append(w.result, topicId), w.visited \cup {topicId}))
preOrderEach(h, d, children, w) ==
  IF children = <<>> THEN w
  ELSE preOrderEach(h, d, Tail(children),
                    preOrderRecursive(h, d, h[Head(children)].id, w))

\* TopicTreeTraversal.traversePreOrder
traversePreOrder(h, d, rootTopicId) ==
  preOrderRecursive(h, d, rootTopicId, Walk(<<>>, {})).result

\* TopicTreeTraversal.postOrderRecursive, and its loop over the children
RECURSIVE postOrderRecursive(_, _, _, _)
RECURSIVE postOrderEach(_, _, _, _)
postOrderRecursive(h, d, topicId, w) ==
  IF topicId \in w.visited THEN w
  ELSE IF findById(d, topicId) = NoRef
    THEN Walk(w.result, w.visited \cup {topicId})
  ELSE LET after == postOrderEach(h, d, findByParentId(h, d, topicId),
                                  Walk(w.result, w.visited \cup {topicId}))
       IN Walk(Append(after.result, topicId), after.visited)
postOrderEach(h, d, children, w) ==
  IF children = <<>> THEN w
  ELSE postOrderEach(h, d, Tail(children),
                     postOrderRecursive(h, d, h[Head(children)].id, w))

\* TopicTreeTraversal.traversePostOrder
traversePostOrder(h, d, rootTopicId) ==
  postOrderRecursive(h, d, rootTopicId, Walk(<<>>, {})).result

\* traverseBreadthFirst pushing no child to the queue
UnvisitedIdsNone(h, children, visited) == <<>>

\* the ids of the children that are not visited yet, in order
RECURSIVE UnvisitedIds(_, _, _)
UnvisitedIds(h, children, visited) ==
  IF children = <<>> THEN <<>>
  ELSE (IF h[Head(children)].id \in visited THEN <<>>
        ELSE <<h[Head(children)].id>>)
       \o UnvisitedIds(h, Tail(children), visited)

\* TopicTreeTraversal.traverseBreadthFirst : the while loop over the queue
RECURSIVE BreadthFirstLoop(_, _, _, _, _)
BreadthFirstLoop(h, d, queue, result, visited) ==
  IF queue = <<>> THEN result
  ELSE
    LET currentTopicId == Head(queue) IN
    IF currentTopicId \in visited
      THEN BreadthFirstLoop(h, d, Tail(queue), result, visited)
    ELSE IF findById(d, currentTopicId) = NoRef
      THEN BreadthFirstLoop(h, d, Tail(queue), result,
                            visited \cup {currentTopicId})
    ELSE BreadthFirstLoop(h, d,
           Tail(queue) \o UnvisitedIds(h, findByParentId(h, d, currentTopicId),
                                       visited \cup {currentTopicId}),
           Append(result, currentTopicId), visited \cup {currentTopicId})

traverseBreadthFirst(h, d, rootTopicId) ==
  BreadthFirstLoop(h, d, <<rootTopicId>>, <<>>, {})

\* ===========================================================================
\* TopicPathFinder
\* ===========================================================================
\* the number Infinity: larger than any distance in the graph
Infinity == 1000000

\* Array.push of x, unless the array includes it
PushNew(seq, x) == IF Includes(seq, x) THEN seq ELSE Append(seq, x)

\* the array the graph holds for a key, [] without the key
Neighbors(graph, id) == IF id \in DOMAIN graph THEN graph[id] ELSE <<>>

\* buildTopicGraph, loop over a topic's children: push the ids not included
RECURSIVE PushChildren(_, _, _)
PushChildren(h, neighbors, children) ==
  IF children = <<>> THEN neighbors
  ELSE PushChildren(h, PushNew(neighbors, h[Head(children)].id),
                    Tail(children))

\* buildTopicGraph, one turn of the second loop: the arrays are shared with
\* the map, so a push is seen through the map at once
GraphAddTopic(h, d, graph, r) ==
  LET id == h[r].id
      parentId == h[r].parentId
      g1 == IF parentId = Undefined THEN graph
            ELSE MapSet(graph, id, Append(graph[id], parentId))
      g2 == IF parentId = Undefined THEN g1
            ELSE MapSet(g1, parentId, PushNew(Neighbors(g1, parentId), id))
  IN MapSet(g2, id, PushChildren(h, g2[id], findByParentId(h, d, id)))

RECURSIVE GraphAddTopics(_, _, _, _)
GraphAddTopics(h, d, graph, allTopics) ==
  IF allTopics = <<>> THEN graph
  ELSE GraphAddTopics(h, d, GraphAddTopic(h, d, graph, Head(allTopics)),
                      Tail(allTopics))

\* TopicPathFinder.buildTopicGraph : id -> array of neighbour ids
buildTopicGraph(h, d) ==
  GraphAddTopics(h, d, [i \in DOMAIN d |-> <<>>], findAll(d))

\* distances.get(id) || Infinity : the distance 0 is falsy and reads Infinity
OrInfinity(distance) == IF distance = 0 THEN Infinity ELSE distance

\* findShortestPath: the unvisited node with the minimum distance, the first
\* such in the order of the set; Undefined for null
RECURSIVE MinUnvisited(_, _, _, _)
MinUnvisited(distances, nodes, currentNode, minDistance) ==
  IF nodes = <<>> THEN currentNode
  ELSE IF OrInfinity(distances[Head(nodes)]) < minDistance
    THEN MinUnvisited(distances, Tail(nodes), Head(nodes),
                      OrInfinity(distances[Head(nodes)]))
  ELSE MinUnvisited(distances, Tail(nodes), currentNode, minDistance)

\* findShortestPath: the loop over the neighbours of the current node
RECURSIVE Relax(_, _, _, _, _)
Relax(neighbors, currentNode, unvisited, distances, previous) ==
  IF neighbors = <<>> THEN [distances |-> distances, previous |-> previous]
  ELSE
    LET neighborId == Head(neighbors)
        newDistance == distances[currentNode] + 1
    IN IF neighborId \in unvisited
            /\ newDistance < OrInfinity(distances[neighborId])
         THEN Relax(Tail(neighbors), currentNode, unvisited,
                    [distances EXCEPT ![neighborId] = newDistance],
                    [previous EXCEPT ![neighborId] = currentNode])
         ELSE Relax(Tail(neighbors), currentNode, unvisited, distances,
                    previous)

\* findShortestPath: the while loop; its value is the map previous
RECURSIVE ShortestLoop(_, _, _, _, _)
ShortestLoop(graph, endTopicId, distances, previous, unvisited) ==
  IF unvisited = {} THEN previous
  ELSE
    LET currentNode == MinUnvisited(distances, SortedIds(unvisited),
                                    Undefined, Infinity)
    IN IF currentNode = Undefined \/ currentNode = endTopicId THEN previous
       ELSE LET relaxed == Relax(graph[currentNode], currentNode,
                                 unvisited \ {currentNode}, distances, previous)
            IN ShortestLoop(graph, endTopicId, relaxed.distances,
                            relaxed.previous, unvisited \ {currentNode})

\* findShortestPath: the path rebuilt backwards through previous
RECURSIVE Reconstruct(_, _, _)
Reconstruct(previous, currentNode, path) ==
  IF currentNode = Undefined THEN path
  ELSE Reconstruct(previous,
                   IF currentNode \in DOMAIN previous
                     THEN previous[currentNode] ELSE Undefined,
                   <<currentNode>> \o path)

\* TopicPathFinder.findShortestPath answering [id] without looking id up
findShortestPathNoLookup(h, d, startTopicId, endTopicId) ==
  IF startTopicId = endTopicId THEN <<startTopicId>> ELSE <<>>

\* TopicPathFinder.findShortestPath : the ids of the path, <<>> for null
findShortestPath(h, d, startTopicId, endTopicId) ==
  IF startTopicId = endTopicId
    THEN (IF findById(d, startTopicId) # NoRef THEN <<startTopicId>> ELSE <<>>)
  ELSE
    LET graph == buildTopicGraph(h, d) IN
    IF startTopicId \notin DOMAIN graph \/ endTopicId \notin DOMAIN graph
      THEN <<>>
    ELSE
      LET previous == ShortestLoop(graph, endTopicId,
                        [i \in DOMAIN graph |->
                           IF i = startTopicId THEN 0 ELSE Infinity],
                        [i \in DOMAIN graph |-> Undefined], DOMAIN graph)
          path == Reconstruct(previous, endTopicId, <<>>)
      IN IF path[1] # startTopicId THEN <<>>
         ELSE IF \E k \in 1..Len(path) : findById(d, path[k]) = NoRef
           THEN <<>>
         ELSE path

\* TopicPathFinder.dfsAllPaths : the paths pushed to allPaths, in order.
\* visited holds the topics of the current path before current: the method
\* adds current on entry and deletes it on exit.
RECURSIVE dfsAllPaths(_, _, _, _, _)
RECURSIVE DfsEachNeighbor(_, _, _, _, _)
dfsAllPaths(graph, current, target, currentPath, visited) ==
  IF current = target THEN <<currentPath>>
  ELSE DfsEachNeighbor(graph, Neighbors(graph, current), target, currentPath,
                       visited \cup {current})
DfsEachNeighbor(graph, neighbors, target, currentPath, visited) ==
  IF neighbors = <<>> THEN <<>>
  ELSE (IF Head(neighbors) \notin visited
          THEN dfsAllPaths(graph, Head(neighbors), target,
                           Append(currentPath, Head(neighbors)), visited)
          ELSE <<>>)
       \o DfsEachNeighbor(graph, Tail(neighbors), target, currentPath, visited)

\* findAllPaths answering only for startTopicId = endTopicId
findAllPathsSameOnly(h, d, startTopicId, endTopicId) ==
  IF startTopicId = endTopicId /\ findById(d, startTopicId) # NoRef
    THEN << <<startTopicId>> >>
    ELSE <<>>

\* TopicPathFinder.findAllPaths : the paths as arrays of ids
findAllPaths(h, d, startTopicId, endTopicId) ==
  IF startTopicId = endTopicId
    THEN (IF findById(d, startTopicId) # NoRef THEN << <<startTopicId>> >>
          ELSE <<>>)
  ELSE SelectSeq(dfsAllPaths(buildTopicGraph(h, d), startTopicId, endTopicId,
                             <<startTopicId>>, {}),
                 LAMBDA path :
                   \A k \in 1..Len(path) : findById(d, path[k]) # NoRef)

\* TopicPathFinder.getPathDistance
getPathDistance(h, d, startTopicId, endTopicId) ==
  LET path == findShortestPath(h, d, startTopicId, endTopicId)
  IN IF path # <<>> THEN Len(path) - 1 ELSE -1

\* findTopicsWithinDistance: the loop over the neighbours of a dequeued topic;
\* seen is the key set of the map distances
RECURSIVE EnqueueNew(_, _, _, _)
EnqueueNew(neighbors, distance, queue, seen) ==
  IF neighbors = <<>> THEN [queue |-> queue, seen |-> seen]
  ELSE IF Head(neighbors) \in seen
    THEN EnqueueNew(Tail(neighbors), distance, queue, seen)
  ELSE EnqueueNew(Tail(neighbors), distance,
                  Append(queue, <<Head(neighbors), distance + 1>>),
                  seen \cup {Head(neighbors)})

\* findTopicsWithinDistance: the while loop over the queue
RECURSIVE WithinLoop(_, _, _, _, _, _)
WithinLoop(d, graph, maxDistance, queue, seen, results) ==
  IF queue = <<>> THEN results
  ELSE
    LET topicId == Head(queue)[1]
        distance == Head(queue)[2]
    IN IF distance > maxDistance
         THEN WithinLoop(d, graph, maxDistance, Tail(queue), seen, results)
       ELSE
         LET next == EnqueueNew(Neighbors(graph, topicId), distance,
                                Tail(queue), seen)
         IN WithinLoop(d, graph, maxDistance, next.queue, next.seen,
                       IF findById(d, topicId) # NoRef
                         THEN Append(results, <<topicId, distance>>)
                         ELSE results)

\* results.sort((a, b) => a.distance - b.distance) : a stable sort
RECURSIVE SortByDistance(_)
SortByDistance(results) ==
  IF results = <<>> THEN <<>>
  ELSE LET least == CHOOSE k \in 1..Len(results) :
                      /\ \A j \in 1..Len(results) :
                           results[k][2] <= results[j][2]
                      /\ \A j \in 1..(k - 1) : results[j][2] > results[k][2]
       IN <<results[least]>>
          \o SortByDistance(SubSeq(results, 1, least - 1)
                            \o SubSeq(results, least + 1, Len(results)))

\* findTopicsWithinDistance returning everything it dequeued
findTopicsWithinDistanceNoBound(h, d, centerTopicId, maxDistance) ==
  SortByDistance(WithinLoop(d, buildTopicGraph(h, d), Infinity,
                            <<<<centerTopicId, 0>>>>, {centerTopicId}, <<>>))

\* TopicPathFinder.findTopicsWithinDistance : pairs <<id, distance>>
findTopicsWithinDistance(h, d, centerTopicId, maxDistance) ==
  SortByDistance(WithinLoop(d, buildTopicGraph(h, d), maxDistance,
                            <<<<centerTopicId, 0>>>>, {centerTopicId}, <<>>))

\* ===========================================================================
\* TopicSearchAlgorithm
\* ===========================================================================
UpperCase == <<"A", "B", "C", "D", "E", "F", "G", "H", "I", "J", "K", "L",
    "M", "N", "O", "P", "Q", "R", "S", "T", "U", "V", "W", "X", "Y", "Z">>
LowerCase == <<"a", "b", "c", "d", "e", "f", "g", "h", "i", "j", "k", "l",
    "m", "n", "o", "p", "q", "r", "s", "t", "u", "v", "w", "x", "y", "z">>
DigitsAndUnderscore == <<"0", "1", "2", "3", "4", "5", "6", "7", "8", "9",
    "_">>

\* String.prototype.toLowerCase, per character
CharToLowerCase(c) ==
  IF \E k \in 1..Len(UpperCase) : UpperCase[k] = c
    THEN LowerCase[CHOOSE k \in 1..Len(UpperCase) : UpperCase[k] = c]
    ELSE c

toLowerCase(s) == [i \in 1..Len(s) |-> CharToLowerCase(s[i])]

\* the classes \w and \s of the regular expressions
IsWordChar(c) ==
  \/ \E k \in 1..Len(UpperCase) : c \in {UpperCase[k], LowerCase[k]}
  \/ \E j \in 1..Len(DigitsAndUnderscore) : c = DigitsAndUnderscore[j]
IsSpace(c) == c = " "

\* replace(/[^\w\s]/g, ' ')
replaceNonWord(s) ==
  [i \in 1..Len(s) |-> IF IsWordChar(s[i]) \/ IsSpace(s[i]) THEN s[i] ELSE " "]

\* split(/\s+/).filter(word => word.length > 0) : the runs of non-space
\* characters; word is the run being read
RECURSIVE SplitWords(_, _)
SplitWords(s, word) ==
  IF s = <<>> THEN (IF word = <<>> THEN <<>> ELSE <<word>>)
  ELSE IF IsSpace(Head(s))
    THEN (IF word = <<>> THEN <<>> ELSE <<word>>) \o SplitWords(Tail(s), <<>>)
  ELSE SplitWords(Tail(s), Append(word, Head(s)))

\* TopicSearchAlgorithm.extractWords
extractWords(text) == SplitWords(replaceNonWord(text), <<>>)

\* TopicSearchAlgorithm.isStopWord : the words of its set
StopWords ==
  {<<"a">>, <<"a", "n">>, <<"a", "n", "d">>, <<"a", "r", "e">>, <<"a",
   "s">>, <<"a", "t">>, <<"b", "e">>, <<"b", "y">>, <<"f", "o", "r">>,
   <<"f", "r", "o", "m">>, <<"h", "a", "s">>, <<"h", "e">>, <<"i", "n">>,
   <<"i", "s">>, <<"i", "t">>, <<"i", "t", "s">>, <<"o", "f">>, <<"o",
   "n">>, <<"t", "h", "a", "t">>, <<"t", "h", "e">>, <<"t", "o">>, <<"w",
   "a", "s">>, <<"w", "i", "l", "l">>, <<"w", "i", "t", "h">>, <<"t", "h",
   "i", "s">>, <<"b", "u", "t">>, <<"t", "h", "e", "y">>, <<"h", "a", "v",
   "e">>, <<"h", "a", "d">>, <<"w", "h", "a", "t">>, <<"s", "a", "i",
   "d">>, <<"e", "a", "c", "h">>, <<"w", "h", "i", "c", "h">>, <<"t", "h",
   "e", "i", "r">>, <<"t", "i", "m", "e">>, <<"i", "f">>}

isStopWord(word) == toLowerCase(word) \in StopWords

\* TopicSearchAlgorithm.preprocessQuery
preprocessQuery(query) ==
  SelectSeq(SplitWords(replaceNonWord(toLowerCase(query)), <<>>),
            LAMBDA term : ~isStopWord(term))

\* String.prototype.includes
stringIncludes(text, term) ==
  \E i \in 0..(Len(text) - Len(term)) : SubSeq(text, i + 1, i + Len(term)) = term

\* the three tests of calculateRelevance on one field: its text and its words
FieldScore(term, text, words, exact, word, partial) ==
  (IF stringIncludes(toLowerCase(text), term) THEN exact ELSE 0)
  + (IF \E k \in 1..Len(words) : toLowerCase(words[k]) = term
       THEN word ELSE 0)
  + (IF \E k \in 1..Len(words) : stringIncludes(toLowerCase(words[k]), term)
       THEN partial ELSE 0)

\* calculateRelevance, the loop over the search terms
RECURSIVE RelevanceLoop(_, _, _, _)
RelevanceLoop(searchTerms, topic, score, matchedFields) ==
  IF searchTerms = <<>> THEN [score |-> score, matchedFields |-> matchedFields]
  ELSE
    LET term == Head(searchTerms)
        inName == FieldScore(term, topic.name, extractWords(topic.name),
                             10, 8, 5)
        inContent == FieldScore(term, topic.content,
                                extractWords(topic.content), 3, 2, 1)
        fields1 == IF inName > 0 THEN PushNew(matchedFields, "name")
                   ELSE matchedFields
        fields2 == IF inContent > 0 THEN PushNew(fields1, "content")
                   ELSE fields1
    IN RelevanceLoop(Tail(searchTerms), topic, score + inName + inContent,
                     fields2)

\* Math.log(n), in millionths, for the lengths of the model
LnMicro ==
  <<0, 693147, 1098612, 1386294, 1609438, 1791759, 1945910, 2079442,
    2197225, 2302585, 2397895, 2484907, 2564949, 2639057, 2708050,
    2772589, 2833213, 2890372, 2944439, 2995732, 3044522>>

\* TopicSearchAlgorithm.calculateRelevance : the normalized score is
\* score / (terms * Math.log(length + 1)), kept as its three parts
calculateRelevance(searchTerms, topic) ==
  LET r == RelevanceLoop(searchTerms, topic, 0, <<>>)
  IN [score |-> r.score, terms |-> Len(searchTerms),
      length |-> Len(topic.content), matchedFields |-> r.matchedFields]

\* relevance.score > 0 : a positive sum over a positive divisor; without
\* terms the quotient 0 / 0 is NaN, and NaN > 0 is false
ScorePositive(result) == result.relevance.score > 0

\* b.relevance - a.relevance < 0 : a has the higher normalized score
\* (s1 / (n L1) > s2 / (n L2) as s1 L2 > s2 L1)
HigherScore(a, b) ==
  a.relevance.score * LnMicro[b.relevance.length + 1]
    > b.relevance.score * LnMicro[a.relevance.length + 1]

\* Array.prototype.sort by descending relevance: stable insertion
RECURSIVE InsertByRelevance(_, _)
InsertByRelevance(sorted, x) ==
  IF sorted = <<>> THEN <<x>>
  ELSE IF HigherScore(x, Head(sorted)) THEN <<x>> \o sorted
  ELSE <<Head(sorted)>> \o InsertByRelevance(Tail(sorted), x)

RECURSIVE SortByRelevance(_, _)
SortByRelevance(results, sorted) ==
  IF results = <<>> THEN sorted
  ELSE SortByRelevance(Tail(results), InsertByRelevance(sorted, Head(results)))

\* the loop of searchWithRelevance: each topic of the list with its relevance
Relevances(h, searchTerms, topics) ==
  [k \in 1..Len(topics) |->
     [id |-> h[topics[k]].id,
      relevance |-> calculateRelevance(searchTerms, h[topics[k]])]]

\* what the model keeps of a result
Results(sorted) ==
  [k \in 1..Len(sorted) |-> <<sorted[k].id, sorted[k].relevance.matchedFields>>]

\* searchWithRelevance keeping the topics of score 0
searchWithRelevanceKeepZero(h, query, topics) ==
  IF trim(query) = <<>> THEN <<>>
  ELSE LET sorted == SortByRelevance(
                       Relevances(h, preprocessQuery(query), topics), <<>>)
       IN Results(sorted)

\* TopicSearchAlgorithm.searchWithRelevance : <<id, matchedFields>> of each
\* result, in the order returned (the snippet is left out)
searchWithRelevance(h, query, topics) ==
  IF trim(query) = <<>> THEN <<>>
  ELSE LET sorted == SortByRelevance(
                       SelectSeq(Relevances(h, preprocessQuery(query), topics),
                                 ScorePositive),
                       <<>>)
       IN Results(sorted)


\* ===========================================================================
\* Queries as calls
\* ===========================================================================
\* a query reads the repository and leaves it as it is
Query(answer) ==
  /\ Running
  /\ last' = answer
  /\ UNCHANGED <<heap, data, versionData, nextId, written, tasks>>

\* GET /api/topics/:id/relationship/:otherId
GetRelationship(topicId1, topicId2) ==
  \E r \in {getRelationship(heap, data, topicId1, topicId2)} :
    Query(Answer("relationship", topicId1, topicId2,
                 IF r.status = "ok" THEN r.type ELSE r.status,
                 <<r.distance>>))

\* GET /api/topics/:id/common-ancestor/:otherId
GetCommonAncestor(topicId1, topicId2) ==
  \E r \in {getCommonAncestor(heap, data, topicId1, topicId2)} :
    Query(Answer("commonAncestor", topicId1, topicId2, r.status, r.result))

\* GET /api/topics/:id/path/:targetId
FindShortestPath(startTopicId, endTopicId) ==
  \E path \in {findShortestPath(heap, data, startTopicId, endTopicId)} :
    Query(Answer("shortestPath", startTopicId, endTopicId,
                 IF path = <<>> THEN "null" ELSE "ok", path))

\* TopicPathFinder.findAllPaths as a call
FindAllPaths(startTopicId, endTopicId) ==
  Query(Answer("allPaths", startTopicId, endTopicId, "ok",
               findAllPaths(heap, data, startTopicId, endTopicId)))

\* TopicSearchAlgorithm.searchWithRelevance over the live topics; the answer
\* is kept with its query
SearchWithRelevance(query) ==
  Query(Answer("search", 0, Undefined, "ok",
               <<query, searchWithRelevance(heap, query, findAll(data))>>))

\* GET /api/topics/:id/distance/:targetId
GetPathDistance(startTopicId, endTopicId) ==
  Query(Answer("pathDistance", startTopicId, endTopicId, "ok",
               <<getPathDistance(heap, data, startTopicId, endTopicId)>>))

\* GET /api/topics/:id/nearby?maxDistance=
FindTopicsWithinDistance(centerTopicId, maxDistance) ==
  Query(Answer("withinDistance", centerTopicId, maxDistance, "ok",
               findTopicsWithinDistance(heap, data, centerTopicId,
                                        maxDistance)))

\* GET /api/topics/:id/traverse?method=
TraverseDepthFirst(rootTopicId) ==
  Query(Answer("depthFirst", rootTopicId, Undefined, "ok",
               traverseDepthFirst(heap, data, rootTopicId)))
TraverseBreadthFirst(rootTopicId) ==
  Query(Answer("breadthFirst", rootTopicId, Undefined, "ok",
               traverseBreadthFirst(heap, data, rootTopicId)))
TraversePreOrder(rootTopicId) ==
  Query(Answer("preOrder", rootTopicId, Undefined, "ok",
               traversePreOrder(heap, data, rootTopicId)))
TraversePostOrder(rootTopicId) ==
  Query(Answer("postOrder", rootTopicId, Undefined, "ok",
               traversePostOrder(heap, data, rootTopicId)))

\* ---------------------------------------------------------------------------
\* The trees the queries are asked about: topics created with a valid body
\* under any live parent, moved (a move under itself included) and deleted.
QueryTopics == 4        \* uuids generated under the query specifications
MoveTopics == 2         \* moves are requested until more uuids are generated

NextTree ==
  \/ \E p \in DOMAIN data \cup {Undefined} :
       nextId <= QueryTopics /\ CreateTopic(<<"a">>, <<"x">>, p)
  \/ \E i \in DOMAIN data : \E p \in DOMAIN data \cup {Undefined} :
       nextId <= MoveTopics + 1 /\ MoveTopic(i, p)
  \/ \E i \in DOMAIN data : DeleteTopic(i)

\* the ids a query can name: a live topic, a deleted one, one never created
QueryIds == 1..QueryTopics
MaxDistance == 2        \* the largest maxDistance asked for

\* SpecRelate: the trees, and the queries of TopicHierarchyAlgorithm
NextRelate ==
  \/ NextTree
  \/ \E a \in QueryIds, b \in QueryIds : GetRelationship(a, b)
  \/ \E a \in QueryIds, b \in QueryIds : GetCommonAncestor(a, b)

SpecRelate == Init /\ [][NextRelate]_vars

\* SpecPath: the trees, and the queries of TopicPathFinder
NextPath ==
  \/ NextTree
  \/ \E a \in QueryIds, b \in QueryIds : FindShortestPath(a, b)
  \/ \E a \in QueryIds, b \in QueryIds : GetPathDistance(a, b)
  \/ \E c \in QueryIds, m \in 0..MaxDistance : FindTopicsWithinDistance(c, m)

SpecPath == Init /\ [][NextPath]_vars

\* ---------------------------------------------------------------------------
\* The undirected parent-child graph of the live topics
Adjacent(x, y) == Live(x).parentId = y \/ Live(y).parentId = x

\* the live topics at most n edges away from the live topic a
RECURSIVE Ball(_, _)
Ball(a, n) ==
  IF n = 0 THEN {a}
  ELSE LET B == Ball(a, n - 1)
       IN B \cup {y \in LiveIds : \E x \in B : Adjacent(x, y)}

Connected(a, b) == b \in Ball(a, Cardinality(LiveIds))

\* the number of edges of a shortest path between connected topics
Distance(a, b) ==
  CHOOSE n \in 0..Cardinality(LiveIds) :
    b \in Ball(a, n) /\ \A m \in 0..(n - 1) : b \notin Ball(a, m)

\* path joins a to b by Distance(a, b) edges of the graph
IsShortestPath(path, a, b) ==
  /\ Len(path) = Distance(a, b) + 1
  /\ path[1] = a
  /\ path[Len(path)] = b
  /\ \A k \in 1..(Len(path) - 1) :
       /\ path[k] \in LiveIds
       /\ path[k + 1] \in LiveIds
       /\ Adjacent(path[k], path[k + 1])

\* C13: for distinct live topics of one tree, findShortestPath returns a path
\* along parent-child edges with the minimum number of edges and
\* getPathDistance its length minus 1; getPathDistance(a, a) is 0 for a live a.
C13_ShortestPath ==
  [][(last'.id \in LiveIds /\ last'.parentId \in LiveIds /\ C1_Forest
        /\ Connected(last'.id, last'.parentId))
       => /\ (last'.op = "shortestPath" /\ last'.id # last'.parentId)
               => IsShortestPath(last'.out, last'.id, last'.parentId)
          /\ last'.op = "pathDistance"
               => last'.out = <<Distance(last'.id, last'.parentId)>>]_vars

\* C14: findShortestPath returns null and getPathDistance -1 when an id is
\* unknown or the two topics are not in one tree; findShortestPath(a, a)
\* returns [a] for a live a.
C14_NoPath ==
  [][/\ (last'.op \in {"shortestPath", "pathDistance"}
           /\ \/ last'.id \notin LiveIds
              \/ last'.parentId \notin LiveIds
              \/ ~Connected(last'.id, last'.parentId))
          => IF last'.op = "shortestPath"
               THEN last'.result = "null" /\ last'.out = <<>>
               ELSE last'.out = <<-1>>
     /\ (last'.op = "shortestPath" /\ last'.id = last'.parentId
           /\ last'.id \in LiveIds)
          => last'.result = "ok" /\ last'.out = <<last'.id>>]_vars

C14_OtherTree ==
  /\ last.op = "pathDistance"
  /\ last.id \in LiveIds
  /\ last.parentId \in LiveIds
  /\ ~Connected(last.id, last.parentId)
  /\ last.out = <<-1>>
  /\ \E i \in LiveIds : Live(i).parentId = last.id

\* C17: findTopicsWithinDistance(center, maxDistance) returns exactly the live
\* topics at most maxDistance edges from the live center, each once, with its
\* distance, in order of non-decreasing distance.
C17_WithinDistance ==
  [][(last'.op = "withinDistance" /\ last'.id \in LiveIds)
       => /\ Range(last'.out)
               = {<<y, Distance(last'.id, y)>> :
                    y \in Ball(last'.id, last'.parentId)}
          /\ Len(last'.out) = Cardinality(Ball(last'.id, last'.parentId))
          /\ \A k \in 1..(Len(last'.out) - 1) :
               last'.out[k][2] <= last'.out[k + 1][2]]_vars

C17_FartherLeftOut ==
  /\ last.op = "withinDistance"
  /\ last.id \in LiveIds
  /\ last.parentId = 1
  /\ Len(last.out) = 3
  /\ \E y \in LiveIds : Connected(last.id, y) /\ Distance(last.id, y) = 2

\* ---------------------------------------------------------------------------
\* The calls of SpecDeep that change the live records: valid create, update
\* of the content, move under another topic or to the top.
NextEdit ==
  \/ \E p \in DOMAIN data \cup {Undefined} :
       nextId <= DeepTopics /\ CreateTopic(<<"a">>, <<"x">>, p)
  \/ \E i \in DOMAIN data :
       UpdatesStored < DeepUpdates /\ UpdateTopic(i, <<>>, <<"y">>, Undefined)
  \/ \E i \in DOMAIN data :
       \E p \in (DOMAIN data \ {i}) \cup {Undefined} : MoveTopic(i, p)

\* SpecTraverse: those calls, and the four traversals from any root id
NextTraverse ==
  \/ NextEdit
  \/ \E r \in 1..DeepTopics : TraverseDepthFirst(r)
  \/ \E r \in 1..DeepTopics : TraverseBreadthFirst(r)
  \/ \E r \in 1..DeepTopics : TraversePreOrder(r)
  \/ \E r \in 1..DeepTopics : TraversePostOrder(r)

SpecTraverse == Init /\ [][NextTraverse]_vars

\* the subtree of a root id: the live root and its transitive descendants
Subtree(root) ==
  IF root \in LiveIds
    THEN {root} \cup {x \in LiveIds : IsDescendant(x, root)}
    ELSE {}

\* C15: traverseDepthFirst and traverseBreadthFirst list the same topics,
\* each once: the live root and all its transitive descendants; for a root id
\* that is no live topic both return the empty list.
C15_SameSet ==
  [][last'.op \in {"depthFirst", "breadthFirst"}
       => /\ Range(last'.out) = Subtree(last'.id)
          /\ Len(last'.out) = Cardinality(Subtree(last'.id))
          /\ Range(traverseDepthFirst(heap, data, last'.id))
               = Range(traverseBreadthFirst(heap, data, last'.id))]_vars

C15_TwoLevels ==
  /\ last.op = "breadthFirst"
  /\ Len(last.out) = 3
  /\ \E x \in LiveIds : Live(x).parentId \in LiveIds \ {last.id, x}

\* C16: in traversePreOrder every topic comes before all of its descendants,
\* in traversePostOrder after all of them; both list the topics of
\* traverseDepthFirst.
C16_Orders ==
  [][last'.op \in {"preOrder", "postOrder"}
       => /\ Range(last'.out)
               = Range(traverseDepthFirst(heap, data, last'.id))
          /\ \A k \in 1..Len(last'.out), l \in 1..Len(last'.out) :
               (k # l /\ IsDescendant(last'.out[l], last'.out[k]))
                 => IF last'.op = "preOrder" THEN k < l ELSE l < k]_vars

\* ---------------------------------------------------------------------------
\* Ancestry under the live parentId relation
Ancestors(x) == {y \in LiveIds : IsDescendant(x, y)}
SelfAndAncestors(x) == {x} \cup Ancestors(x)
Depth(x) == Cardinality(Ancestors(x))
Shared(a, b) == SelfAndAncestors(a) \cap SelfAndAncestors(b)

\* the lowest of the shared ancestors: none of the others is below it
LowestShared(a, b) ==
  {c \in Shared(a, b) : \A e \in Shared(a, b) \ {c} : ~IsDescendant(e, c)}
Lowest(a, b) == CHOOSE c \in LowestShared(a, b) : TRUE

\* the type with the two topics exchanged
MirrorType(type) ==
  CASE type = "parent-child" -> "child-parent"
    [] type = "child-parent" -> "parent-child"
    [] type = "ancestor-descendant" -> "descendant-ancestor"
    [] type = "descendant-ancestor" -> "ancestor-descendant"
    [] OTHER -> type

\* C18: for live topics a and b, getRelationship(b, a) has the mirrored type
\* of getRelationship(a, b) (parent-child <-> child-parent,
\* ancestor-descendant <-> descendant-ancestor, the others unchanged) and the
\* same distance; when one of the two calls does not return, neither does.
C18_Symmetric ==
  [][(last'.op = "relationship" /\ last'.id \in LiveIds
        /\ last'.parentId \in LiveIds)
       => LET r == getRelationship(heap, data, last'.parentId, last'.id)
          IN /\ (IF r.status = "ok" THEN r.type ELSE r.status)
                  = MirrorType(last'.result)
             /\ last'.out = <<r.distance>>]_vars

C18_BothWays ==
  /\ last.op = "relationship"
  /\ last.result = "descendant-ancestor"
  /\ last.out = <<2>>
  /\ getRelationship(heap, data, last.parentId, last.id).type
       = "ancestor-descendant"

\* the classification of two live topics of a forest
Classified(a, b) ==
  IF a = b THEN <<"same", 0>>
  ELSE IF Live(a).parentId = b THEN <<"child-parent", 1>>
  ELSE IF Live(b).parentId = a THEN <<"parent-child", 1>>
  ELSE IF Live(a).parentId # Undefined /\ Live(a).parentId = Live(b).parentId
    THEN <<"siblings", 2>>
  ELSE IF a \in Ancestors(b) THEN <<"ancestor-descendant", Depth(b) - Depth(a)>>
  ELSE IF b \in Ancestors(a) THEN <<"descendant-ancestor", Depth(a) - Depth(b)>>
  ELSE IF Shared(a, b) # {}
    THEN <<"cousins", (Depth(a) - Depth(Lowest(a, b)))
                        + (Depth(b) - Depth(Lowest(a, b)))>>
  ELSE <<"unrelated", -1>>

\* C19: for live topics of a forest getRelationship returns the type and the
\* distance of the classification: same 0, parent-child or child-parent 1,
\* siblings, ancestor-descendant or descendant-ancestor with the depth
\* difference, cousins with the sum of the distances to the lowest common
\* ancestor, unrelated -1.
C19_Classification ==
  [][(last'.op = "relationship" /\ last'.id \in LiveIds
        /\ last'.parentId \in LiveIds /\ C1_Forest)
       => <<last'.result, last'.out[1]>>
            = Classified(last'.id, last'.parentId)]_vars

C19_Cousins ==
  /\ last.op = "relationship"
  /\ last.result = "cousins"
  /\ last.out = <<3>>
  /\ C1_Forest

\* C20: for live a and b getCommonAncestor returns the lowest topic that is a
\* or an ancestor of a and b or an ancestor of b, and null exactly when there
\* is none.
C20_LowestCommonAncestor ==
  [][(last'.op = "commonAncestor" /\ last'.id \in LiveIds
        /\ last'.parentId \in LiveIds)
       => /\ last'.result = "ok"
          /\ IF Shared(last'.id, last'.parentId) = {} THEN last'.out = <<>>
             ELSE \E c \in LowestShared(last'.id, last'.parentId) :
                    last'.out = <<c>>]_vars

\* C24: every call returns: in no reachable state has a hierarchy load, the
\* cycle check of a move or an update, or another query been started that
\* never ends.
C24_Terminates == last.result # "diverged"

\* C26: a move of a live topic under a live topic that is neither the topic
\* itself nor one of its current descendants succeeds, whatever was loaded or
\* moved before.
C26_ValidMoveAccepted ==
  [][(last'.op = "move" /\ last'.id \in LiveIds /\ last'.parentId \in LiveIds
        /\ last'.parentId # last'.id
        /\ ~IsDescendant(last'.parentId, last'.id))
       => last'.result = "ok"]_vars

\* what a query must leave alone in a record
Record(h, r) ==
  [parentId |-> h[r].parentId, children |-> h[r].children,
   version |-> h[r].version]

\* C27: a hierarchy load, a traversal, a path or relationship query, and the
\* descendant walk of a rejected move leave the parentId, the children list
\* and the version of every live record and of every history entry as they
\* were.
C27_QueriesReadOnly ==
  [][(\/ last'.op \in {"hierarchy", "depthFirst", "breadthFirst", "preOrder",
                       "postOrder", "shortestPath", "pathDistance",
                       "withinDistance", "relationship", "commonAncestor"}
      \/ Did("move", "Circular"))
       => /\ DOMAIN data' = LiveIds
          /\ \A i \in LiveIds : Record(heap', data'[i]) = Record(heap, data[i])
          /\ DOMAIN versionData' = DOMAIN versionData
          /\ \A i \in DOMAIN versionData :
               /\ DOMAIN versionData'[i] = DOMAIN versionData[i]
               /\ \A v \in DOMAIN versionData[i] :
                    Record(heap', versionData'[i][v])
                      = Record(heap, versionData[i][v])]_vars

\* C28: a successful update that names a live parent other than the current
\* one, not the topic itself and none of its descendants, stores a new live
\* version whose parentId is that parent.
C28_UpdateMoves ==
  [][(Did("update", "ok") /\ last'.id \in LiveIds
        /\ last'.parentId \in LiveIds
        /\ last'.parentId # Live(last'.id).parentId
        /\ last'.parentId # last'.id
        /\ ~IsDescendant(last'.parentId, last'.id))
       => /\ heap'[data'[last'.id]].version = Live(last'.id).version + 1
          /\ heap'[data'[last'.id]].parentId = last'.parentId]_vars

\* ---------------------------------------------------------------------------
\* SpecAllPaths: the trees, and findAllPaths between any two ids, the never
\* generated id 0 and the deleted ones among them
NextAllPaths ==
  \/ NextTree
  \/ \E a \in 0..QueryTopics, b \in 0..QueryTopics : FindAllPaths(a, b)

SpecAllPaths == Init /\ [][NextAllPaths]_vars

\* path joins a to b through adjacent live topics and repeats none
IsSimplePath(path, a, b) ==
  /\ Len(path) >= 1
  /\ path[1] = a
  /\ path[Len(path)] = b
  /\ \A k \in 1..Len(path) : path[k] \in LiveIds
  /\ \A k \in 1..Len(path), l \in 1..Len(path) : k # l => path[k] # path[l]
  /\ \A k \in 1..(Len(path) - 1) : Adjacent(path[k], path[k + 1])

\* the simple paths to b that begin with the simple path given
RECURSIVE Extensions(_, _)
Extensions(path, b) ==
  IF path[Len(path)] = b THEN {path}
  ELSE UNION {Extensions(Append(path, y), b) :
                y \in {z \in LiveIds \ Range(path) :
                         Adjacent(path[Len(path)], z)}}

SimplePaths(a, b) ==
  IF a \in LiveIds /\ b \in LiveIds THEN Extensions(<<a>>, b) ELSE {}

\* C30: findAllPaths(a, b) returns the simple paths from a to b in the
\* undirected parent-child graph, each once and nothing else; on a forest that
\* is one path for distinct live topics of one tree, [[a]] for a live a = b,
\* and no path for different trees or an unknown id.
C30_AllSimplePaths ==
  [][last'.op = "allPaths"
       => /\ Range(last'.out) = SimplePaths(last'.id, last'.parentId)
          /\ Len(last'.out) = Cardinality(Range(last'.out))
          /\ C1_Forest
               => Len(last'.out)
                    = IF /\ last'.id \in LiveIds
                         /\ last'.parentId \in LiveIds
                         /\ Connected(last'.id, last'.parentId)
                        THEN 1 ELSE 0]_vars

C30_PathOfThree ==
  /\ last.op = "allPaths"
  /\ C1_Forest
  /\ Len(last.out) = 1
  /\ Len(last.out[1]) = 3

\* ---------------------------------------------------------------------------
\* SpecSearch: topics with the names and contents below, and searches
SearchTopics == 2

JSGuide == <<"J", "S", " ", "G", "u", "i", "d", "e">>
LearnJavascript ==
  <<"l", "e", "a", "r", "n", " ", "j", "a", "v", "a", "s", "c", "r", "i", "p", "t">>
PyGuide == <<"P", "y", " ", "G", "u", "i", "d", "e">>
LearnPython == <<"l", "e", "a", "r", "n", " ", "p", "y", "t", "h", "o", "n">>
Python == <<"P", "y", "t", "h", "o", "n">>
JsTips == <<"j", "s", " ", "t", "i", "p", "s">>

SearchBodies ==
  {<<JSGuide, LearnJavascript>>, <<PyGuide, LearnPython>>, <<Python, JsTips>>}

Javascript == <<"j", "a", "v", "a", "s", "c", "r", "i", "p", "t">>

SearchQueries ==
  {Javascript, <<"p", "y", "t", "h", "o", "n">>, <<"J", "S">>, <<"t", "h", "e">>, <<" ">>,
    <<"p", "y", "-", "g", "u", "i", "d", "e">>, <<"g", "u", "i", "d", "e", " ", "j", "s">>}

NextSearch ==
  \/ \E c \in SearchBodies :
       nextId <= SearchTopics /\ CreateTopic(c[1], c[2], Undefined)
  \/ \E i \in DOMAIN data : DeleteTopic(i)
  \/ \E q \in SearchQueries : SearchWithRelevance(q)

SpecSearch == Init /\ [][NextSearch]_vars

\* term occurs in text, letter case apart
Occurs(term, text) ==
  \E i \in 1..Len(text), j \in 1..Len(text) :
    SubSeq(toLowerCase(text), i, j) = term

\* some term of the query occurs in the text
Matched(query, text) ==
  \E k \in 1..Len(preprocessQuery(query)) :
    Occurs(preprocessQuery(query)[k], text)

\* the results list the live topics that a term of the query matches, each
\* once, and each with the fields in which a term matched
FieldsAsMatched(query, results) ==
  /\ {results[k][1] : k \in 1..Len(results)}
       = {i \in LiveIds : \/ Matched(query, Live(i).name)
                           \/ Matched(query, Live(i).content)}
  /\ \A k \in 1..Len(results), l \in 1..Len(results) :
       k # l => results[k][1] # results[l][1]
  /\ \A k \in 1..Len(results) :
       Range(results[k][2])
         = {f \in {"name", "content"} :
              Matched(query, IF f = "name" THEN Live(results[k][1]).name
                             ELSE Live(results[k][1]).content)}

\* the live topics are "JS Guide" and "Py Guide", created in this order
TwoGuides ==
  /\ LiveIds = {1, 2}
  /\ Live(1).name = JSGuide /\ Live(1).content = LearnJavascript
  /\ Live(2).name = PyGuide /\ Live(2).content = LearnPython

\* C25 as stated: searching "JS Guide" / "learn javascript" and "Py Guide" /
\* "learn python" for "javascript" returns one result, the topic "JS Guide",
\* whose matchedFields contains "name"; in every search matchedFields lists a
\* field exactly when a query term matched in it and topics of score 0 are
\* left out.
C25_NameMatched ==
  [][last'.op = "search"
       => /\ FieldsAsMatched(last'.out[1], last'.out[2])
          /\ (TwoGuides /\ last'.out[1] = Javascript)
               => /\ Len(last'.out[2]) = 1
                  /\ Live(last'.out[2][1][1]).name = JSGuide
                  /\ "name" \in Range(last'.out[2][1][2])]_vars

\* C25 amended: the same search returns one result, the topic "JS Guide",
\* whose matchedFields is ["content"]: "javascript" occurs in its content and
\* not in its name; in every search matchedFields lists a field exactly when
\* a query term matched in it and topics of score 0 are left out.
C25_ContentMatched ==
  [][last'.op = "search"
       => /\ FieldsAsMatched(last'.out[1], last'.out[2])
          /\ (TwoGuides /\ last'.out[1] = Javascript)
               => /\ Len(last'.out[2]) = 1
                  /\ Live(last'.out[2][1][1]).name = JSGuide
                  /\ last'.out[2][1][2] = <<"content">>]_vars

C25_GuidesSearched ==
  /\ last.op = "search"
  /\ last.out[1] = Javascript
  /\ TwoGuides
  /\ Len(last.out[2]) = 1

\* ===========================================================================
\* Calls in flight together.  Node runs a call until its next await and then
\* any other pending call; nothing in the service or the repositories orders
\* two calls.  A call takes a slot of tasks when it starts, every step below
\* is a stretch of its code between two awaits, and the slot keeps what the
\* call read into its local variables.
\* ===========================================================================
RaceTopics == 3         \* uuids generated under SpecRace

\* a slot is taken once, the lower slot first
MayStart(t) ==
  /\ Running
  /\ tasks[t].op = "idle"
  /\ \A u \in 1..(t - 1) : tasks[u].op # "idle"

At(t, op, pc) == Running /\ tasks[t].op = op /\ tasks[t].pc = pc

\* the call of slot t returns or throws
Finished(t, outcome) == [tasks[t] EXCEPT !.pc = "done", !.outcome = outcome]

\* ------------------------------------------------- TopicService.update
\* update(id, {content}) : up to `await this.topicRepository.findById(id)`
StartUpdate(t, id, content) ==
  /\ MayStart(t)
  /\ tasks' = [tasks EXCEPT ![t] =
                 [Idle EXCEPT !.op = "update", !.pc = "found", !.id = id,
                              !.content = content, !.ref = findById(data, id)]]
  /\ UNCHANGED <<heap, data, versionData, nextId, written, last>>

\* from existingTopic to `await this.findById(topicId)` in createNewVersion
UpdateFound(t) ==
  /\ At(t, "update", "found")
  /\ IF tasks[t].ref = NoRef
       THEN /\ tasks' = [tasks EXCEPT ![t] = Finished(t, "null")]
            /\ last' = Call("update", tasks[t].id, Undefined, "null")
       ELSE LET existingTopic == heap[tasks[t].ref]
                updatedTopic == topicCreateNewVersion(existingTopic,
                                  OrElse(tasks[t].content, existingTopic.content),
                                  OrElse(<<>>, existingTopic.name))
            IN IF validate(updatedTopic) # <<>>
                 THEN /\ tasks' = [tasks EXCEPT ![t] =
                                     Finished(t, "ValidationFailed")]
                      /\ last' = Call("update", tasks[t].id, Undefined,
                                      "ValidationFailed")
                 ELSE /\ tasks' = [tasks EXCEPT ![t] =
                                     [@ EXCEPT !.pc = "repoFound",
                                               !.name = updatedTopic.name,
                                               !.content = updatedTopic.content,
                                               !.ref = findById(data, tasks[t].id)]]
                      /\ last' = last
  /\ UNCHANGED <<heap, data, versionData, nextId, written>>

\* TopicRepository.createNewVersion once existingTopic is read
createNewVersionFound(h, d, vd, existingTopic, topicId, name, content) ==
  IF existingTopic = NoRef THEN Outcome(h, d, vd, "NotFound")
  ELSE
    LET newVersion == topicCreateNewVersion(h[existingTopic], content, name)
        ref == NewRef(h, topicId, newVersion.version)
        versionMap == IF topicId \in DOMAIN vd THEN vd[topicId] ELSE <<>>
    IN Outcome(MapSet(h, ref, newVersion),
               MapSet(d, topicId, ref),
               MapSet(vd, topicId, MapSet(versionMap, newVersion.version, ref)),
               "ok")

\* createNewVersion from existingTopic to its return
UpdateStore(t) ==
  /\ At(t, "update", "repoFound")
  /\ \E o \in {createNewVersionFound(heap, data, versionData, tasks[t].ref,
                                     tasks[t].id, tasks[t].name,
                                     tasks[t].content)} :
        /\ heap' = o.heap
        /\ data' = o.data
        /\ versionData' = o.versionData
        /\ written' = IF o.result = "ok"
                        THEN MapSet(written,
                               <<tasks[t].id, heap[tasks[t].ref].version + 1>>,
                               Stored(tasks[t].name, tasks[t].content))
                        ELSE written
        /\ tasks' = [tasks EXCEPT ![t] = Finished(t, o.result)]
        /\ last' = Call("update", tasks[t].id, Undefined, o.result)
  /\ UNCHANGED nextId

\* ------------------------------------------- TopicService.moveToParent
\* moveToParent(topicId, newParentId) : the descendant walk of the service,
\* its reads taken together; then up to `await this.findById(topicId)` of
\* the repository
StartMove(t, topicId, newParentId) ==
  /\ MayStart(t)
  /\ \E w \in {IF newParentId # Undefined
                 THEN wouldCreateCircularReference(heap, data, topicId,
                                                   newParentId)
                 ELSE [status |-> "ok", heap |-> heap, result |-> FALSE]} :
        /\ heap' = w.heap
        /\ \E call \in {[Idle EXCEPT !.op = "move", !.pc = "checked",
                                     !.id = topicId,
                                     !.parentId = newParentId]} :
             IF w.status # "ok" \/ w.result
               THEN LET outcome == IF w.status # "ok" THEN w.status
                                   ELSE "Circular"
                    IN /\ tasks' = [tasks EXCEPT ![t] =
                                      [call EXCEPT !.pc = "done",
                                                   !.outcome = outcome]]
                       /\ last' = Call("move", topicId, newParentId, outcome)
               ELSE /\ tasks' = [tasks EXCEPT ![t] = call]
                    /\ last' = last
  /\ UNCHANGED <<data, versionData, nextId, written>>

\* TopicRepository.moveToParent : topic, the parent's existence and the
\* descendant walk, read together
MoveChecked(t) ==
  /\ At(t, "move", "checked")
  /\ LET topicId == tasks[t].id
         newParentId == tasks[t].parentId
         topic == findById(data, topicId)
         ga == IF topic # NoRef /\ newParentId # Undefined
                  /\ exists(data, newParentId)
                 THEN getAllDescendants(heap, data, topicId)
                 ELSE [status |-> "ok", heap |-> heap, result |-> <<>>]
         outcome == IF topic = NoRef THEN "null"
                    ELSE IF newParentId # Undefined /\ ~exists(data, newParentId)
                      THEN "ParentNotFound"
                    ELSE IF ga.status # "ok" THEN ga.status
                    ELSE IF SomeHasId(ga.heap, ga.result, newParentId)
                      THEN "Circular"
                    ELSE "ok"
     IN /\ heap' = ga.heap
        /\ IF outcome = "ok"
             THEN /\ tasks' = [tasks EXCEPT ![t] =
                                 [@ EXCEPT !.pc = "walked", !.ref = topic]]
                  /\ last' = last
             ELSE /\ tasks' = [tasks EXCEPT ![t] = Finished(t, outcome)]
                  /\ last' = Call("move", topicId, newParentId, outcome)
  /\ UNCHANGED <<data, versionData, nextId, written>>

\* `topic.parentId = newParentId`, then BaseRepository.update to its store
MoveCommit(t) ==
  /\ At(t, "move", "walked")
  /\ \E o \in {baseUpdateParent(
                 [heap EXCEPT ![tasks[t].ref].parentId = tasks[t].parentId],
                 data, versionData, tasks[t].id, tasks[t].parentId)} :
        /\ heap' = o.heap
        /\ data' = o.data
        /\ versionData' = o.versionData
        /\ tasks' = [tasks EXCEPT ![t] =
                       [Finished(t, o.result)
                          EXCEPT !.before = heap[tasks[t].ref].parentId]]
        /\ last' = Call("move", tasks[t].id, tasks[t].parentId, o.result)
  /\ UNCHANGED <<nextId, written>>

\* ------------------------------------------------- TopicService.delete
\* delete(id) : up to `await this.topicRepository.findById(id)`
StartDelete(t, id) ==
  /\ MayStart(t)
  /\ tasks' = [tasks EXCEPT ![t] =
                 [Idle EXCEPT !.op = "delete", !.pc = "found", !.id = id,
                              !.ref = findById(data, id)]]
  /\ UNCHANGED <<heap, data, versionData, nextId, written, last>>

\* a canDelete of delete: of the service after topic ("found"), of the
\* repository after the first one ("mayDelete")
DeleteCanDelete(t) ==
  /\ \/ At(t, "delete", "found")
     \/ At(t, "delete", "mayDelete")
  /\ \E outcome \in {IF tasks[t].pc = "found" /\ tasks[t].ref = NoRef
                       THEN "false"
                     ELSE IF ~canDelete(heap, data, tasks[t].id)
                       THEN "HasChildren"
                     ELSE "ok"} :
       IF outcome = "ok"
         THEN /\ tasks' = [tasks EXCEPT ![t] =
                             [@ EXCEPT !.pc = IF @ = "found" THEN "mayDelete"
                                              ELSE "deleting"]]
              /\ last' = last
         ELSE /\ tasks' = [tasks EXCEPT ![t] = Finished(t, outcome)]
              /\ last' = Call("delete", tasks[t].id, Undefined, outcome)
  /\ UNCHANGED <<heap, data, versionData, nextId, written>>

\* TopicRepository.delete after canDelete: versionData.delete(id), then
\* BaseRepository.delete
DeleteCommit(t) ==
  /\ At(t, "delete", "deleting")
  /\ \E outcome \in {IF exists(data, tasks[t].id) THEN "ok" ELSE "false"} :
        /\ data' = MapDelete(data, tasks[t].id)
        /\ versionData' = MapDelete(versionData, tasks[t].id)
        /\ written' = [k \in {x \in DOMAIN written : x[1] # tasks[t].id}
                         |-> written[k]]
        /\ tasks' = [tasks EXCEPT ![t] = Finished(t, outcome)]
        /\ last' = Call("delete", tasks[t].id, Undefined, outcome)
  /\ UNCHANGED <<heap, nextId>>

\* ------------------------------------------------- TopicService.create
\* create({name, content, parentId}) : up to
\* `await this.topicRepository.findById(data.parentId)`
StartCreate(t, name, content, parentId) ==
  /\ MayStart(t)
  /\ nextId <= RaceTopics
  /\ tasks' = [tasks EXCEPT ![t] =
                 [Idle EXCEPT !.op = "create", !.pc = "parentFound",
                              !.name = name, !.content = content,
                              !.parentId = parentId,
                              !.ref = findById(data, parentId)]]
  /\ UNCHANGED <<heap, data, versionData, nextId, written, last>>

\* from parentTopic to the store of TopicRepository.create
CreateStore(t) ==
  /\ At(t, "create", "parentFound")
  /\ \E o \in {IF tasks[t].parentId # Undefined /\ tasks[t].ref = NoRef
                 THEN Outcome(heap, data, versionData, "ParentNotFound")
               ELSE LET topic == NewTopic(tasks[t].name, tasks[t].content,
                                          tasks[t].parentId, nextId, 1)
                    IN IF validate(topic) # <<>>
                         THEN Outcome(heap, data, versionData,
                                      "ValidationFailed")
                       ELSE repoCreate(heap, data, versionData, topic)} :
        /\ heap' = o.heap
        /\ data' = o.data
        /\ versionData' = o.versionData
        /\ nextId' = IF o.result = "ok" THEN nextId + 1 ELSE nextId
        /\ written' = IF o.result = "ok"
                        THEN MapSet(written, <<nextId, 1>>,
                                    Stored(tasks[t].name, tasks[t].content))
                        ELSE written
        /\ tasks' = [tasks EXCEPT ![t] =
                       [Finished(t, o.result) EXCEPT !.id = nextId]]
        /\ last' = Call("create", nextId, tasks[t].parentId, o.result)

\* ------------------------------ TopicTreeTraversal.traverseBreadthFirst
\* traverseBreadthFirst(rootTopicId) : up to the first turn of the loop
StartBreadthFirst(t, rootTopicId) ==
  /\ MayStart(t)
  /\ tasks' = [tasks EXCEPT ![t] =
                 [Idle EXCEPT !.op = "breadthFirst", !.pc = "loop",
                              !.id = rootTopicId, !.queue = <<rootTopicId>>]]
  /\ UNCHANGED <<heap, data, versionData, nextId, written, last>>

\* one turn of the while loop, its two reads taken together; the call
\* returns when the turn leaves the queue empty
BreadthFirstTurn(t) ==
  /\ At(t, "breadthFirst", "loop")
  /\ LET currentTopicId == Head(tasks[t].queue)
         visited == tasks[t].visited \cup {currentTopicId}
         found == currentTopicId \notin tasks[t].visited
                  /\ findById(data, currentTopicId) # NoRef
         queue == Tail(tasks[t].queue)
                  \o (IF found
                        THEN UnvisitedIds(heap,
                               findByParentId(heap, data, currentTopicId),
                               visited)
                        ELSE <<>>)
         result == IF found THEN Append(tasks[t].result, currentTopicId)
                   ELSE tasks[t].result
     IN /\ tasks' = [tasks EXCEPT ![t] =
                       [@ EXCEPT !.queue = queue, !.result = result,
                                 !.visited = visited,
                                 !.pc = IF queue = <<>> THEN "done" ELSE "loop",
                                 !.outcome = IF queue = <<>> THEN "ok" ELSE ""]]
        /\ last' = IF queue = <<>>
                     THEN Answer("breadthFirst", tasks[t].id, Undefined, "ok",
                                 result)
                     ELSE last
  /\ UNCHANGED <<heap, data, versionData, nextId, written>>

\* ---------------------------------------------------------------------------
\* SpecRace: topics created one call after another, with a valid body and
\* under any live parent; then MaxTasks calls in flight together.
RaceContents == {<<"y">>, <<"z">>}

NextRace ==
  \/ \E p \in DOMAIN data \cup {Undefined} :
       /\ \A t \in 1..MaxTasks : tasks[t].op = "idle"
       /\ nextId <= RaceTopics
       /\ CreateTopic(<<"a">>, <<"x">>, p)
  \/ \E t \in 1..MaxTasks, i \in DOMAIN data, c \in RaceContents :
       StartUpdate(t, i, c)
  \/ \E t \in 1..MaxTasks : UpdateFound(t)
  \/ \E t \in 1..MaxTasks : UpdateStore(t)
  \/ \E t \in 1..MaxTasks, i \in DOMAIN data :
       \E p \in (DOMAIN data \cup {Undefined}) \ {i} : StartMove(t, i, p)
  \/ \E t \in 1..MaxTasks : MoveChecked(t)
  \/ \E t \in 1..MaxTasks : MoveCommit(t)
  \/ \E t \in 1..MaxTasks, i \in DOMAIN data : StartDelete(t, i)
  \/ \E t \in 1..MaxTasks : DeleteCanDelete(t)
  \/ \E t \in 1..MaxTasks : DeleteCommit(t)
  \/ \E t \in 1..MaxTasks, p \in DOMAIN data \cup {Undefined} :
       StartCreate(t, <<"a">>, <<"x">>, p)
  \/ \E t \in 1..MaxTasks : CreateStore(t)
  \/ \E t \in 1..MaxTasks, i \in DOMAIN data : StartBreadthFirst(t, i)
  \/ \E t \in 1..MaxTasks : BreadthFirstTurn(t)

SpecRace == Init /\ [][NextRace]_vars

\* ---------------------------------------------------------------------------
\* the calls of SpecRace that have returned
HasReturned(t, op) == tasks[t].op = op /\ tasks[t].pc = "done"

\* the update calls on id that have returned a new version
UpdatesDone(id) ==
  {t \in 1..MaxTasks : HasReturned(t, "update") /\ tasks[t].id = id
                       /\ tasks[t].outcome = "ok"}

\* C21: when two (or more) update calls on one id, in flight together from
\* live version v (v = 1 under SpecRace, where every topic is at its first
\* version when the calls start), have all returned successfully, the live
\* version is v + the number of updates, the history holds every version up
\* to it, and every update's content is a snapshot of the history: no
\* version number is assigned twice, no snapshot is overwritten.
C21_UpdatesSerialized ==
  \A id \in LiveIds :
    (/\ Cardinality(UpdatesDone(id)) >= 2
     /\ \A t \in 1..MaxTasks : tasks[t].op = "update" /\ tasks[t].pc = "done")
    => /\ Live(id).version = 1 + Cardinality(UpdatesDone(id))
       /\ \A v \in 1..(1 + Cardinality(UpdatesDone(id))) :
            /\ v \in DOMAIN versionData[id]
            /\ heap[versionData[id][v]].version = v
       /\ \A t \in UpdatesDone(id) :
            \E v \in DOMAIN versionData[id] :
              v > 1 /\ heap[versionData[id][v]].content = tasks[t].content

\* C22: when the calls in flight together are moves and all have returned,
\* the live parentId relation is a forest: no topic is its own descendant.
C22_MovesKeepForest ==
  (\A t \in 1..MaxTasks : HasReturned(t, "move")) => C1_Forest

\* the tree before the move of slot m stored its parentId
BeforeMove(m) ==
  IF tasks[m].pc = "done" /\ tasks[m].outcome = "ok"
       /\ tasks[m].id \in DOMAIN data
    THEN [heap EXCEPT ![data[tasks[m].id]].parentId = tasks[m].before]
    ELSE heap

\* C23: the list a breadth-first traversal returns, when the only other call
\* in flight with it is a move, is the list the traversal returns on the tree
\* before the move or on the tree after it.
C23_TraversalAtomic ==
  \A t \in 1..MaxTasks, m \in 1..MaxTasks :
    (/\ HasReturned(t, "breadthFirst")
     /\ tasks[m].op = "move"
     /\ \A u \in 1..MaxTasks \ {t, m} : tasks[u].op = "idle")
    => tasks[t].result \in
         {traverseBreadthFirst(BeforeMove(m), data, tasks[t].id),
          traverseBreadthFirst(heap, data, tasks[t].id)}

\* C29: when delete(P) and a create under P or a move under P, in flight
\* together, have both returned, they have not both succeeded, and no live
\* topic has the parentId of a topic that is not live.
C29_DeleteKeepsChildren ==
  \A t \in 1..MaxTasks, u \in 1..MaxTasks :
    (/\ HasReturned(t, "delete")
     /\ HasReturned(u, "create") \/ HasReturned(u, "move")
     /\ tasks[u].parentId = tasks[t].id
     /\ \A w \in 1..MaxTasks \ {t, u} : tasks[w].op = "idle")
    => /\ tasks[t].outcome # "ok" \/ tasks[u].outcome # "ok"
       /\ \A i \in LiveIds :
            Live(i).parentId # Undefined => Live(i).parentId \in LiveIds

====
